---------------------------- MODULE Spec2Model ----------------------------
(***************************************************************************)
(* A model of the pipelined 8-bit CPU emulator (cpu.rs, device.rs) and of  *)
(* the layout / label / encoding passes of its assembler (assembler/).     *)
(*                                                                         *)
(* The machine state is kept in record-valued variables that mirror the    *)
(* Rust structs; every Rust function that reads or changes that state is   *)
(* an operator of the same name that maps the old records to the new ones. *)
(***************************************************************************)
EXTENDS Integers, Sequences, FiniteSets, TLC

VARIABLES
    cpu,        \* struct Cpu
    mem,        \* struct Memory
    vga,        \* struct Vga (registers only)
    uart,       \* struct Uart
    audio,      \* struct Audio (write protocol state)
    fault,      \* "" or the message of the panic that stopped the program
    tick,       \* locals of the last Cpu::clock call (fetch_stage1, ...)
    ticks,      \* number of Cpu::clock calls so far
    vgaread,    \* the last VGA-side read of Memory: aperture, value, oracle
    section_st, \* assembler: state of process_sections
    label_st,   \* assembler: state of evaluate_labels
    emit_st,    \* assembler: state of the emission loop of assemble
    sys         \* struct System: scheduler fields and the running driver call

vars == << cpu, mem, vga, uart, audio, fault, tick, ticks, vgaread,
           section_st, label_st, emit_st, sys >>

cpuVars == << cpu, mem, vga, uart, audio, fault, tick, ticks >>
asmVars == << section_st, label_st, emit_st >>

-----------------------------------------------------------------------------
(* Fixed-width integers (types.rs: Byte = Wrapping<u8>, Word = Wrapping<u16>) *)

BYTE_MAX == 255
WORD_MOD == 65536

Byte(n) == n % 256
Word(n) == n % WORD_MOD
low(w)  == w % 256
high(w) == (w \div 256) % 256
set_low(w, v)  == high(w) * 256 + v
set_high(w, v) == v * 256 + low(w)

RECURSIVE bitand(_, _)
bitand(a, b) ==
    IF a = 0 \/ b = 0 THEN 0
    ELSE ((a % 2) * (b % 2)) + 2 * bitand(a \div 2, b \div 2)

RECURSIVE bitor(_, _)
bitor(a, b) ==
    IF a = 0 THEN b
    ELSE IF b = 0 THEN a
    ELSE ((a % 2) + (b % 2) - (a % 2) * (b % 2)) + 2 * bitor(a \div 2, b \div 2)

RECURSIVE bitxor(_, _)
bitxor(a, b) ==
    IF a = 0 THEN b
    ELSE IF b = 0 THEN a
    ELSE ((a + b) % 2) + 2 * bitxor(a \div 2, b \div 2)

\* impl Not: Self(!self.0) of a type of modulus m (256 for Byte, 65536 for Word)
not(m, v) == (m - 1) - v

Some(v) == << v >>
None == << >>

-----------------------------------------------------------------------------
(* cpu.rs: enum Instruction and decode_opcode.  An instruction is a record  *)
(* of its variant name and its operands, written as their Display strings. *)

I(op, x, y) == [op |-> op, x |-> x, y |-> y]

Nop == I("Nop", "", "")

decode_table ==
  << I("Nop", "", ""), I("Mov", "#", "a"), I("Mov", "#", "b"),
     I("Mov", "#", "c"), I("Mov", "#", "d"), I("Mov", "#", "tl"),
     I("Mov", "#", "th"), I("Mov", "b", "a"), I("Mov", "c", "a"),
     I("Mov", "d", "a"), I("Mov", "a", "b"), I("Mov", "c", "b"),
     I("Mov", "d", "b"), I("Mov", "a", "c"), I("Mov", "b", "c"),
     I("Mov", "d", "c"), I("Mov", "a", "d"), I("Mov", "b", "d"),
     I("Mov", "c", "d"), I("Mov", "a", "tl"), I("Mov", "b", "tl"),
     I("Mov", "c", "tl"), I("Mov", "d", "tl"), I("Mov", "a", "th"),
     I("Mov", "b", "th"), I("Mov", "c", "th"), I("Mov", "d", "th"),
     I("Mov", "tl", "a"), I("Mov", "tl", "b"), I("Mov", "tl", "c"),
     I("Mov", "tl", "d"), I("Mov", "th", "a"), I("Mov", "th", "b"),
     I("Mov", "th", "c"), I("Mov", "th", "d"), I("MovWord", "tx", "ra"),
     I("MovWord", "ra", "tx"), I("MovWord", "tx", "sp"), I("MovWord", "sp", "tx"),
     I("MovWord", "tx", "si"), I("MovWord", "si", "tx"), I("MovWord", "tx", "di"),
     I("MovWord", "di", "tx"), I("MovWord", "si", "di"), I("MovWord", "di", "si"),
     I("MovWord", "sp", "si"), I("MovWord", "sp", "di"), I("Subae", "", ""),
     I("Out", "a", "vgaData"), I("In", "vgaData", "a"), I("DecWord", "si", ""),
     I("DecWord", "di", ""), I("IncWord", "sp", ""), I("IncWord", "si", ""),
     I("IncWord", "di", ""), I("Out", "a", "lcdCmd"), I("Out", "a", "lcdData"),
     I("Out", "a", "uartData"), I("In", "uartData", "a"), I("In", "uartCtrl", "a"),
     I("Out", "a", "audioData"), I("In", "audioData", "a"), I("In", "lcdCmd", "a"),
     I("Break", "", ""), I("Mov", "[si]", "a"), I("Mov", "[si]", "b"),
     I("Mov", "[si]", "c"), I("Mov", "[si]", "d"), I("Mov", "[di]", "a"),
     I("Mov", "[di]", "b"), I("Mov", "[di]", "c"), I("Mov", "[di]", "d"),
     I("Mov", "[tx]", "a"), I("Mov", "[tx]", "b"), I("Mov", "[tx]", "c"),
     I("Mov", "[tx]", "d"), I("Mov", "a", "[si]"), I("Mov", "b", "[si]"),
     I("Mov", "c", "[si]"), I("Mov", "d", "[si]"), I("Mov", "a", "[di]"),
     I("Mov", "b", "[di]"), I("Mov", "c", "[di]"), I("Mov", "d", "[di]"),
     I("Mov", "a", "[tx]"), I("Mov", "b", "[tx]"), I("Mov", "c", "[tx]"),
     I("Mov", "d", "[tx]"), I("Addc", "b", "b"), I("Add", "b", "b"),
     I("Addac", "", ""), I("Lodsb", "", ""), I("Call", "tx", ""),
     I("Call", "di", ""), I("Ret", "", ""), I("Prebranch", "", ""),
     I("Jmp", "tx", ""), I("Jo", "tx", ""), I("Jno", "tx", ""),
     I("Js", "tx", ""), I("Jns", "tx", ""), I("Jz", "tx", ""),
     I("Jnz", "tx", ""), I("Jc", "tx", ""), I("Jnc", "tx", ""),
     I("Jna", "tx", ""), I("Ja", "tx", ""), I("Jl", "tx", ""),
     I("Jge", "tx", ""), I("Jle", "tx", ""), I("Jg", "tx", ""),
     I("Jlc", "tx", ""), I("Jnlc", "tx", ""), I("Jmp", "di", ""),
     I("Push", "a", ""), I("Push", "b", ""), I("Push", "c", ""),
     I("Push", "d", ""), I("Push", "tl", ""), I("Push", "th", ""),
     I("Pop", "a", ""), I("Pop", "b", ""), I("Pop", "c", ""),
     I("Pop", "d", ""), I("Pop", "tl", ""), I("Pop", "th", ""),
     I("Stosb", "", ""), I("Clc", "", ""), I("Shl", "a", ""),
     I("Shl", "b", ""), I("Shl", "c", ""), I("Shl", "d", ""),
     I("Shr", "a", ""), I("Shr", "b", ""), I("Shr", "c", ""),
     I("Shr", "d", ""), I("Add", "b", "a"), I("Add", "c", "a"),
     I("Add", "d", "a"), I("Add", "a", "b"), I("Add", "c", "b"),
     I("Add", "d", "b"), I("Add", "a", "c"), I("Add", "b", "c"),
     I("Add", "d", "c"), I("Add", "a", "d"), I("Add", "b", "d"),
     I("Add", "c", "d"), I("Addc", "b", "a"), I("Addc", "c", "a"),
     I("Addc", "d", "a"), I("Addc", "a", "b"), I("Addc", "c", "b"),
     I("Addc", "d", "b"), I("Addc", "a", "c"), I("Addc", "b", "c"),
     I("Addc", "d", "c"), I("Addc", "a", "d"), I("Addc", "b", "d"),
     I("Addc", "c", "d"), I("Inc", "a", ""), I("Inc", "b", ""),
     I("Inc", "c", ""), I("Inc", "d", ""), I("Incc", "a", ""),
     I("Incc", "b", ""), I("Incc", "c", ""), I("Incc", "d", ""),
     I("Sub", "b", "a"), I("Sub", "c", "a"), I("Sub", "d", "a"),
     I("Sub", "a", "b"), I("Sub", "c", "b"), I("Sub", "d", "b"),
     I("Sub", "a", "c"), I("Sub", "b", "c"), I("Sub", "d", "c"),
     I("Sub", "a", "d"), I("Sub", "b", "d"), I("Sub", "c", "d"),
     I("Subb", "b", "a"), I("Subb", "c", "a"), I("Subb", "d", "a"),
     I("Subb", "a", "b"), I("Subb", "c", "b"), I("Subb", "d", "b"),
     I("Subb", "a", "c"), I("Subb", "b", "c"), I("Subb", "d", "c"),
     I("Subb", "a", "d"), I("Subb", "b", "d"), I("Subb", "c", "d"),
     I("Dec", "a", ""), I("Dec", "b", ""), I("Dec", "c", ""),
     I("Dec", "d", ""), I("And", "b", "a"), I("And", "c", "a"),
     I("And", "d", "a"), I("And", "a", "b"), I("And", "c", "b"),
     I("And", "d", "b"), I("And", "a", "c"), I("And", "b", "c"),
     I("And", "d", "c"), I("And", "a", "d"), I("And", "b", "d"),
     I("And", "c", "d"), I("Or", "b", "a"), I("Or", "c", "a"),
     I("Or", "d", "a"), I("Or", "a", "b"), I("Or", "c", "b"),
     I("Or", "d", "b"), I("Or", "a", "c"), I("Or", "b", "c"),
     I("Or", "d", "c"), I("Or", "a", "d"), I("Or", "b", "d"),
     I("Or", "c", "d"), I("Xor", "b", "a"), I("Xor", "c", "a"),
     I("Xor", "d", "a"), I("Xor", "a", "b"), I("Xor", "c", "b"),
     I("Xor", "d", "b"), I("Xor", "a", "c"), I("Xor", "b", "c"),
     I("Xor", "d", "c"), I("Xor", "a", "d"), I("Xor", "b", "d"),
     I("Xor", "c", "d"), I("Xor", "a", "a"), I("Xor", "b", "b"),
     I("Xor", "c", "c"), I("Xor", "d", "d"), I("Not", "a", ""),
     I("Not", "b", ""), I("Not", "c", ""), I("Not", "d", ""),
     I("Cmp", "b", "a"), I("Cmp", "c", "a"), I("Cmp", "d", "a"),
     I("Cmp", "a", "b"), I("Cmp", "c", "b"), I("Cmp", "d", "b"),
     I("Cmp", "a", "c"), I("Cmp", "b", "c"), I("Cmp", "d", "c"),
     I("Cmp", "a", "d"), I("Cmp", "b", "d"), I("Cmp", "c", "d"),
     I("Test", "a", ""), I("Test", "b", ""), I("Test", "c", ""),
     I("Test", "d", "") >>

decode_opcode(opcode) == decode_table[opcode + 1]

-----------------------------------------------------------------------------
(* device.rs: Vga registers, Lcd, Uart, Audio                               *)

vga_new ==
    [h_counter |-> 0, v_counter |-> 0, h_pixel |-> 0, v_pixel |-> 0,
     h_offset |-> 0, v_offset |-> 0, update_vscroll |-> FALSE]

read_mapped_io(v, addr) ==
    CASE addr = 0 -> low(v.h_offset)
      [] addr = 1 -> high(v.h_offset)
      [] addr = 2 -> low(v.v_offset)
      [] addr = 3 -> high(v.v_offset)
      [] OTHER -> 0

write_mapped_io(v, addr, value) ==
    CASE addr = 0 -> [v EXCEPT !.h_offset = set_low(@, value)]
      [] addr = 1 -> [v EXCEPT !.h_offset = set_high(@, value)]
      [] addr = 2 -> [v EXCEPT !.v_offset = set_low(@, value)]
      [] addr = 3 -> [v EXCEPT !.v_offset = set_high(@, value),
                               !.update_vscroll = TRUE]
      [] OTHER -> v

SCREEN_WIDTH == 640
SCREEN_HEIGHT == 480

vga_read_data(v) ==
    LET H_SYNC_START == SCREEN_WIDTH + 16
        H_SYNC_END == H_SYNC_START + 96
        V_SYNC_START == SCREEN_HEIGHT + 10
        V_SYNC_END == V_SYNC_START + 2
        LINE_CLOCK_START == H_SYNC_END + 32
        LINE_CLOCK_END == LINE_CLOCK_START + 16
        hblank == v.h_counter >= SCREEN_WIDTH
        vblank == v.v_counter >= SCREEN_HEIGHT
    IN  (IF ~((v.h_counter >= H_SYNC_START) /\ (v.h_counter < H_SYNC_END)) THEN 128 ELSE 0)
      + (IF ~((v.v_counter >= V_SYNC_START) /\ (v.v_counter < V_SYNC_END)) THEN 64 ELSE 0)
      + (IF hblank THEN 32 ELSE 0)
      + (IF vblank THEN 16 ELSE 0)
      + (IF hblank \/ vblank THEN 8 ELSE 0)
      + (IF ~((v.h_counter = 0) /\ (v.v_counter = 0)) THEN 4 ELSE 0)
      + (IF (v.h_counter >= LINE_CLOCK_START) /\ (v.h_counter < LINE_CLOCK_END) THEN 2 ELSE 0)

\* Vga::write_data is called by Cpu::clock but is not part of device.rs
vga_write_data(v, value) == v

\* Lcd is a stub without state: writes are dropped, reads give 0
lcd_read_data == 0

QUEUE_N == 8

\* Queue::new: a ring of N slots
Queue_new ==
    [items |-> [i \in 0..(QUEUE_N - 1) |-> None], start |-> 0, end |-> 0, len |-> 0]

uart_new == [receive_fifo |-> Queue_new, transmit_fifo |-> Queue_new]

\* a variant that stores at the start index instead of the end index
enqueue_at_start(q, item) ==
    IF q.len = QUEUE_N THEN [q |-> q, ok |-> FALSE]
    ELSE [q |-> [q EXCEPT !.items[q.start] = Some(item),
                          !.end = (q.end + 1) % QUEUE_N,
                          !.len = q.len + 1],
          ok |-> TRUE]

enqueue(q, item) ==
    IF q.len = QUEUE_N THEN [q |-> q, ok |-> FALSE]
    ELSE [q |-> [q EXCEPT !.items[q.end] = Some(item),
                          !.end = (q.end + 1) % QUEUE_N,
                          !.len = q.len + 1],
          ok |-> TRUE]

\* the slot is taken out and unwrapped: an empty slot would be a panic
dequeue(q) ==
    IF q.len = 0 THEN [q |-> q, item |-> None, fault |-> ""]
    ELSE [q |-> [q EXCEPT !.items[q.start] = None,
                          !.start = (q.start + 1) % QUEUE_N,
                          !.len = q.len - 1],
          item |-> q.items[q.start],
          fault |-> IF q.items[q.start] = None
                    THEN "called Option::unwrap() on a None value" ELSE ""]

read_ctrl(u) == bitor(u.receive_fifo.len, Byte(u.transmit_fifo.len * 16))

uart_read_data(u) ==
    LET r == dequeue(u.receive_fifo)
    IN  [uart |-> [u EXCEPT !.receive_fifo = r.q],
         value |-> IF r.item = None THEN 0 ELSE r.item[1],
         fault |-> r.fault]

uart_write_data(u, value) ==
    LET r == enqueue(u.transmit_fifo, value)
    IN  [uart |-> [u EXCEPT !.transmit_fifo = r.q],
         fault |-> IF r.ok THEN ""
                   ELSE "Cannot transmit any more data, buffer is full"]

host_read(u) ==
    LET r == dequeue(u.transmit_fifo)
    IN  [uart |-> [u EXCEPT !.transmit_fifo = r.q], item |-> r.item, fault |-> r.fault]

host_write(u, value) ==
    LET r == enqueue(u.receive_fifo, value)
    IN  [uart |-> [u EXCEPT !.receive_fifo = r.q],
         fault |-> IF r.ok THEN ""
                   ELSE "Cannot receive any more data, buffer is full"]

\* a channel is the data word of its volume and frequency; the word of
\* SquareWaveChannel::new (volume 0.0, frequency 0) is 0xF000
audio_new ==
    [cycle_state |-> "ChannelSelect", channel_index |-> 0, low_data |-> 0,
     channel |-> [i \in 0..3 |-> 15 * 4096]]

audio_write_data(a, value) ==
    LET reset_cycle == bitand(a.channel_index, 128) # 0
        idx == bitand(a.channel_index, 127)
        a1 == CASE a.cycle_state = "ChannelSelect" ->
                      [a EXCEPT !.channel_index = value, !.cycle_state = "LowData"]
                [] a.cycle_state = "LowData" ->
                      [a EXCEPT !.low_data = value, !.cycle_state = "HighData"]
                [] a.cycle_state = "HighData" ->
                      [a EXCEPT !.channel =
                                  IF idx \in 0..3
                                  THEN [@ EXCEPT ![idx] = value * 256 + a.low_data]
                                  ELSE @,
                                !.cycle_state = "ChannelSelect"]
    IN  IF reset_cycle THEN [a1 EXCEPT !.cycle_state = "ChannelSelect"] ELSE a1

\* Audio::read_data is called by Cpu::clock but is not part of device.rs
audio_read_data(a) == 0

-----------------------------------------------------------------------------
(* device.rs: Memory.  data and palette_data are kept sparse: an address   *)
(* outside the domain holds 0, and a byte of 0 is never stored.            *)

MAP_RANGE_START == 35584    \* 0x8B00
MAP_RANGE_END == 35840      \* 0x8C00
VGA_RANGE_START == 35712    \* 0x8B80
VGA_RANGE_END == 35716      \* 0x8B84
FRAMEBUFFER_START == 49152  \* 0xC000
FRAMEBUFFER_END == 57344    \* 0xE000
FRAMEBUFFER_MASK == 8191    \* 0x1FFF
PALETTE_START == 35840      \* 0x8C00
PALETTE_END == 36864        \* 0x9000
TILE_DATA_START == 40960    \* 0xA000
TILE_DATA_END == 49152      \* 0xC000
TILE_DATA_MASK == 8191      \* 0x1FFF

Color_BLACK == << 0, 0, 0, BYTE_MAX >>

Get(d, a) == IF a \in DOMAIN d THEN d[a] ELSE 0

Put(d, a, v) ==
    IF v = 0 THEN [x \in (DOMAIN d) \ {a} |-> d[x]]
    ELSE [x \in (DOMAIN d) \cup {a} |-> IF x = a THEN v ELSE d[x]]

Memory_new ==
    [data |-> << >>, palette_data |-> << >>,
     framebuffer_conflict |-> FALSE, last_framebuffer_data |-> 0,
     palette_conflict |-> FALSE, last_palette_data |-> Color_BLACK,
     palette_high |-> 0,
     tile_data_conflict |-> FALSE, last_tile_data |-> 0]

read(m, v, addr) ==
    IF (addr >= MAP_RANGE_START) /\ (addr < MAP_RANGE_END)
    THEN IF (addr >= VGA_RANGE_START) /\ (addr < VGA_RANGE_END)
         THEN read_mapped_io(v, addr - VGA_RANGE_START)
         ELSE 0
    ELSE Get(m.data, addr)

\* the write's effect on the conflict flags and the palette RAM
write_conflict(m, addr, value) ==
    IF (addr >= FRAMEBUFFER_START) /\ (addr < FRAMEBUFFER_END)
    THEN [m EXCEPT !.framebuffer_conflict = TRUE]
    ELSE IF (addr >= PALETTE_START) /\ (addr < PALETTE_END)
    THEN LET palette_addr == bitor(m.palette_high * 1024, bitand(addr, 1023))
         IN  [m EXCEPT !.palette_conflict = TRUE,
                       !.palette_data = Put(@, palette_addr, value),
                       !.palette_high = IF bitand(addr, 3) = 3
                                        THEN bitand(value, 31) ELSE @]
    ELSE IF (addr >= TILE_DATA_START) /\ (addr < TILE_DATA_END)
    THEN [m EXCEPT !.tile_data_conflict = TRUE]
    ELSE m

\* a variant that stores the byte one address higher
write_above(m, v, addr, value) ==
    [mem |-> [m EXCEPT !.data = Put(@, Word(addr + 1), value)], vga |-> v]

write(m, v, addr, value) ==
    IF (addr >= MAP_RANGE_START) /\ (addr < MAP_RANGE_END)
    THEN [mem |-> m,
          vga |-> IF (addr >= VGA_RANGE_START) /\ (addr < VGA_RANGE_END)
                  THEN write_mapped_io(v, addr - VGA_RANGE_START, value)
                  ELSE v]
    ELSE [mem |-> [write_conflict(m, addr, value) EXCEPT !.data = Put(@, addr, value)],
          vga |-> v]

\* a variant that reads through to memory whatever the conflict flag says
framebuffer_read_through(m, addr) ==
    LET data == Get(m.data, bitand(addr, FRAMEBUFFER_MASK) + FRAMEBUFFER_START)
    IN  [mem |-> [m EXCEPT !.last_framebuffer_data = data], value |-> data]

framebuffer_read(m, addr) ==
    IF m.framebuffer_conflict
    THEN [mem |-> m, value |-> m.last_framebuffer_data]
    ELSE LET data == Get(m.data, bitand(addr, FRAMEBUFFER_MASK) + FRAMEBUFFER_START)
         IN  [mem |-> [m EXCEPT !.last_framebuffer_data = data], value |-> data]

palette_read(m, index) ==
    IF m.palette_conflict
    THEN [mem |-> m, value |-> m.last_palette_data]
    ELSE LET palette_addr == bitor(m.palette_high * 1024, index * 4)
             color == << Get(m.palette_data, palette_addr),
                         Get(m.palette_data, palette_addr + 1),
                         Get(m.palette_data, palette_addr + 2),
                         Color_BLACK[4] >>
         IN  [mem |-> [m EXCEPT !.last_palette_data = color], value |-> color]

tile_data_read(m, addr) ==
    IF m.tile_data_conflict
    THEN [mem |-> m, value |-> m.last_tile_data]
    ELSE LET data == Get(m.data, bitand(addr, TILE_DATA_MASK) + TILE_DATA_START)
         IN  [mem |-> [m EXCEPT !.last_tile_data = data], value |-> data]

reset_vga_conflict(m) ==
    [m EXCEPT !.framebuffer_conflict = FALSE,
              !.palette_conflict = FALSE,
              !.tile_data_conflict = FALSE]

-----------------------------------------------------------------------------
(* cpu.rs: struct Cpu and its helpers                                       *)

PROGRAM_COUNTER_INIT == 0
STACK_POINTER_INIT == 0

GprNames == {"a", "b", "c", "d"}
SprIndirectNames == {"[pc]", "[ra]", "[sp]", "[si]", "[di]"}

\* the register a LoadSource::SprIndirect / StoreTarget::SprIndirect names
spr_of(s) ==
    CASE s = "[pc]" -> "pc" [] s = "[ra]" -> "ra" [] s = "[sp]" -> "sp"
      [] s = "[si]" -> "si" [] s = "[di]" -> "di"

Cpu_new ==
    [transfer |-> 0,
     spr |-> [pc |-> 0, ra |-> 0, sp |-> 0, si |-> 0, di |-> 0],
     constant |-> 0,
     gpr |-> [a |-> 0, b |-> 0, c |-> 0, d |-> 0],
     stage0_instruction |-> Nop,
     stage1_instruction |-> Nop,
     stage2_instruction |-> Nop,
     lhs_latch |-> 0, rhs_latch |-> 0, subae_carry |-> 0,
     flags |-> [overflow |-> FALSE, zero |-> FALSE, carry |-> FALSE,
                logical_carry |-> FALSE, sign |-> FALSE]]

reset(c) ==
    [c EXCEPT !.spr.pc = PROGRAM_COUNTER_INIT,
              !.spr.sp = STACK_POINTER_INIT,
              !.stage0_instruction = Nop,
              !.stage1_instruction = Nop,
              !.stage2_instruction = Nop]

\* a variant without the constant latch: the immediate is read at the PC
load_constant_at_pc(c, m, v, source) ==
    CASE source = "#" -> [mem_read |-> FALSE, value |-> read(m, v, c.spr.pc)]
      [] source \in GprNames -> [mem_read |-> FALSE, value |-> c.gpr[source]]
      [] source = "tl" -> [mem_read |-> FALSE, value |-> low(c.transfer)]
      [] source = "th" -> [mem_read |-> FALSE, value |-> high(c.transfer)]
      [] source \in SprIndirectNames ->
            [mem_read |-> TRUE, value |-> read(m, v, c.spr[spr_of(source)])]
      [] source = "[tx]" -> [mem_read |-> TRUE, value |-> read(m, v, c.transfer)]

load(c, m, v, source) ==
    CASE source = "#" -> [mem_read |-> FALSE, value |-> c.constant]
      [] source \in GprNames -> [mem_read |-> FALSE, value |-> c.gpr[source]]
      [] source = "tl" -> [mem_read |-> FALSE, value |-> low(c.transfer)]
      [] source = "th" -> [mem_read |-> FALSE, value |-> high(c.transfer)]
      [] source \in SprIndirectNames ->
            [mem_read |-> TRUE, value |-> read(m, v, c.spr[spr_of(source)])]
      [] source = "[tx]" -> [mem_read |-> TRUE, value |-> read(m, v, c.transfer)]

store(c, m, v, target, value) ==
    CASE target \in GprNames ->
            [cpu |-> [c EXCEPT !.gpr[target] = value], mem |-> m, vga |-> v,
             mem_write |-> FALSE]
      [] target = "tl" ->
            [cpu |-> [c EXCEPT !.transfer = set_low(@, value)], mem |-> m,
             vga |-> v, mem_write |-> FALSE]
      [] target = "th" ->
            [cpu |-> [c EXCEPT !.transfer = set_high(@, value)], mem |-> m,
             vga |-> v, mem_write |-> FALSE]
      [] target \in SprIndirectNames ->
            LET w == write(m, v, c.spr[spr_of(target)], value)
            IN  [cpu |-> c, mem |-> w.mem, vga |-> w.vga, mem_write |-> TRUE]
      [] target = "[tx]" ->
            LET w == write(m, v, c.transfer, value)
            IN  [cpu |-> c, mem |-> w.mem, vga |-> w.vga, mem_write |-> TRUE]

load_word(c, source) ==
    IF source = "tx" THEN c.transfer ELSE c.spr[source]

store_word(c, target, value) ==
    IF target = "tx" THEN [c EXCEPT !.transfer = value]
    ELSE [c EXCEPT !.spr[target] = value]

jump_to(c, target) ==
    IF target = "tx" THEN [c EXCEPT !.spr.pc = c.transfer]
    ELSE [c EXCEPT !.spr.pc = c.spr[target]]

\* a variant whose overflow flag ignores the sign of the rhs latch
alu_stage2_lhs_overflow(c, target, carry_override) ==
    LET lhs == c.lhs_latch
        rhs == c.rhs_latch
        carry_add == IF carry_override # None THEN carry_override[1]
                     ELSE IF c.flags.carry THEN 1 ELSE 0
        result_long == lhs + rhs + carry_add
        result == result_long % 256
        sign == bitand(result, 128) # 0
        lhs_sign == bitand(lhs, 128) # 0
        new_flags == [c.flags EXCEPT
                        !.carry = result_long > 255,
                        !.zero = (result = 0),
                        !.sign = sign,
                        !.overflow = (lhs_sign # sign)]
    IN  [cpu |-> IF target # None THEN [c EXCEPT !.gpr[target[1]] = result] ELSE c,
         new_flags |-> new_flags]

\* target: None or Some(gpr name); carry_override: None or Some(0 or 1)
alu_stage2(c, target, carry_override) ==
    LET lhs == c.lhs_latch
        rhs == c.rhs_latch
        carry_add == IF carry_override # None THEN carry_override[1]
                     ELSE IF c.flags.carry THEN 1 ELSE 0
        result_long == lhs + rhs + carry_add
        result == result_long % 256
        sign == bitand(result, 128) # 0
        lhs_sign == bitand(lhs, 128) # 0
        rhs_sign == bitand(rhs, 128) # 0
        new_flags == [c.flags EXCEPT
                        !.carry = result_long > 255,
                        !.zero = (result = 0),
                        !.sign = sign,
                        !.overflow = (lhs_sign = rhs_sign) /\ (lhs_sign # sign)]
    IN  [cpu |-> IF target # None THEN [c EXCEPT !.gpr[target[1]] = result] ELSE c,
         new_flags |-> new_flags]

\* a variant that shifts a zero in
shift_left_zero_in(value, carry) ==
    LET long_shifted == (value * 2) % WORD_MOD
    IN  [value |-> low(long_shifted), carry |-> high(long_shifted) # 0]

shift_left(value, carry) ==
    LET long_shifted == bitor((value * 2) % WORD_MOD, carry)
    IN  [value |-> low(long_shifted), carry |-> high(long_shifted) # 0]

shift_right(value, carry) ==
    LET long_shifted == bitor((value * 128) % WORD_MOD, (carry * 32768) % WORD_MOD)
    IN  [value |-> high(long_shifted), carry |-> low(long_shifted) # 0]

shift_op_stage1(c, target, op(_, _)) ==
    LET r == op(c.gpr[target], IF c.flags.logical_carry THEN 1 ELSE 0)
    IN  [cpu |-> [c EXCEPT !.rhs_latch = 0, !.lhs_latch = r.value],
         carry |-> r.carry]

logic_op_stage1(c, source, target, op(_, _)) ==
    [c EXCEPT !.lhs_latch = 0, !.rhs_latch = op(c.gpr[source], c.gpr[target])]

\* a variant that never inverts the right-hand side
arithmetic_op_stage1_plain(c, source, target, invert_rhs) ==
    [c EXCEPT !.lhs_latch = c.gpr[target], !.rhs_latch = c.gpr[source]]

\* a variant without forwarding: the target is read as it was before the
\* stage 2 of this tick wrote it
arithmetic_op_stage1_stale(c, source, target, invert_rhs) ==
    [c EXCEPT !.lhs_latch = IF c.stage2_instruction.y = target
                            THEN c.lhs_latch ELSE c.gpr[target],
              !.rhs_latch = IF invert_rhs THEN not(BYTE_MAX + 1, c.gpr[source]) ELSE c.gpr[source]]

arithmetic_op_stage1(c, source, target, invert_rhs) ==
    [c EXCEPT !.lhs_latch = c.gpr[target],
              !.rhs_latch = IF invert_rhs THEN not(BYTE_MAX + 1, c.gpr[source]) ELSE c.gpr[source]]

\* a variant that copies RA to the PC and keeps RA
flip_pc_ra_copy(c) ==
    [c EXCEPT !.spr.pc = c.spr.ra]

flip_pc_ra(c) ==
    [c EXCEPT !.spr.pc = c.spr.ra, !.spr.ra = c.spr.pc]

-----------------------------------------------------------------------------
(* cpu.rs: Cpu::clock.  s is the record of the five objects clock works on *)
(* (cpu, mem, vga, uart, audio); the three stages are applied in the order *)
(* of the source, each to the result of the one before.                    *)

\* Stage 2 of clock: the match on stage2_instruction
stage2(s) ==
    LET c == s.cpu
        ins == c.stage2_instruction
        base == [cpu |-> c, mem |-> s.mem, vga |-> s.vga, uart |-> s.uart,
                 audio |-> s.audio, fetch_stage2 |-> TRUE,
                 new_flags |-> c.flags, break_point |-> FALSE, fault |-> ""]
        alu(target, carry_override) ==
            LET r == alu_stage2(c, target, carry_override)
            IN  [base EXCEPT !.cpu = r.cpu, !.new_flags = r.new_flags]
    IN  CASE ins.op = "Mov" ->
                LET l == load(c, s.mem, s.vga, ins.x)
                    st == store(c, s.mem, s.vga, ins.y, l.value)
                IN  [base EXCEPT
                       !.cpu = st.cpu, !.mem = st.mem, !.vga = st.vga,
                       !.fetch_stage2 = ~(l.mem_read \/ st.mem_write),
                       !.fault = IF l.mem_read /\ st.mem_write
                                 THEN "internal error: entered unreachable code: Opcode performed memory read and write at the same time"
                                 ELSE ""]
          [] ins.op = "IncWord" ->
                [base EXCEPT !.cpu.spr[ins.x] = Word(@ + 1)]
          [] ins.op = "Prebranch" -> [base EXCEPT !.fetch_stage2 = FALSE]
          [] ins.op = "Clc" ->
                [base EXCEPT !.new_flags = [@ EXCEPT !.carry = FALSE, !.zero = FALSE,
                                                     !.overflow = FALSE, !.sign = FALSE]]
          [] ins.op \in {"Shl", "Shr", "Not", "Dec"} -> alu(Some(ins.x), Some(0))
          [] ins.op \in {"Add", "And", "Or", "Xor"} -> alu(Some(ins.y), Some(0))
          [] ins.op \in {"Addc", "Subb"} -> alu(Some(ins.y), None)
          [] ins.op = "Inc" -> alu(Some(ins.x), Some(1))
          [] ins.op = "Incc" -> alu(Some(ins.x), None)
          [] ins.op = "Sub" -> alu(Some(ins.y), Some(1))
          [] ins.op = "Cmp" -> alu(None, Some(1))
          [] ins.op = "Test" -> alu(None, Some(0))
          [] ins.op = "Push" ->
                LET value == CASE ins.x \in GprNames -> c.gpr[ins.x]
                               [] ins.x = "tl" -> low(c.transfer)
                               [] ins.x = "th" -> high(c.transfer)
                    w == write(s.mem, s.vga, c.spr.sp, value)
                IN  [base EXCEPT !.mem = w.mem, !.vga = w.vga, !.fetch_stage2 = FALSE]
          [] ins.op = "Pop" ->
                LET value == read(s.mem, s.vga, c.spr.sp)
                    c1 == CASE ins.x \in GprNames -> [c EXCEPT !.gpr[ins.x] = value]
                            [] ins.x = "tl" -> [c EXCEPT !.transfer = set_low(@, value)]
                            [] ins.x = "th" -> [c EXCEPT !.transfer = set_high(@, value)]
                IN  [base EXCEPT !.cpu = [c1 EXCEPT !.spr.sp = Word(@ + 1)],
                                 !.fetch_stage2 = FALSE]
          [] ins.op \in {"Call", "Ret"} -> [base EXCEPT !.cpu = flip_pc_ra(c)]
          [] ins.op = "Out" ->
                LET value == c.gpr[ins.x]
                IN  (CASE ins.y \in {"lcdCmd", "lcdData"} -> base
                      [] ins.y = "uartData" ->
                            LET r == uart_write_data(s.uart, value)
                            IN  [base EXCEPT !.uart = r.uart, !.fault = r.fault]
                      [] ins.y = "uartCtrl" ->
                            [base EXCEPT !.fault = "internal error: entered unreachable code"]
                      [] ins.y = "audioData" ->
                            [base EXCEPT !.audio = audio_write_data(s.audio, value)]
                      [] ins.y = "vgaData" ->
                            [base EXCEPT !.vga = vga_write_data(s.vga, value)])
          [] ins.op = "In" ->
                (CASE ins.x = "lcdCmd" ->
                        [base EXCEPT !.fault = "internal error: entered unreachable code"]
                  [] ins.x = "lcdData" -> [base EXCEPT !.cpu.gpr[ins.y] = lcd_read_data]
                  [] ins.x = "uartData" ->
                        LET r == uart_read_data(s.uart)
                        IN  [base EXCEPT !.uart = r.uart, !.cpu.gpr[ins.y] = r.value,
                                         !.fault = r.fault]
                  [] ins.x = "uartCtrl" ->
                        [base EXCEPT !.cpu.gpr[ins.y] = read_ctrl(s.uart)]
                  [] ins.x = "audioData" ->
                        [base EXCEPT !.cpu.gpr[ins.y] = audio_read_data(s.audio)]
                  [] ins.x = "vgaData" ->
                        [base EXCEPT !.cpu.gpr[ins.y] = vga_read_data(s.vga)])
          [] ins.op = "Break" -> [base EXCEPT !.break_point = TRUE]
          [] ins.op = "Lodsb" ->
                [base EXCEPT !.cpu = [c EXCEPT !.gpr.a = read(s.mem, s.vga, c.spr.si),
                                               !.spr.si = Word(@ + 1)],
                             !.fetch_stage2 = FALSE]
          [] ins.op = "Stosb" ->
                LET w == write(s.mem, s.vga, c.spr.di, c.gpr.a)
                IN  [base EXCEPT !.mem = w.mem, !.vga = w.vga,
                                 !.cpu.spr.di = Word(@ + 1),
                                 !.fetch_stage2 = FALSE]
          [] ins.op = "Addac" -> alu(Some("c"), Some(0))
          [] ins.op = "Subae" -> alu(Some("d"), Some(c.subae_carry))
          [] OTHER -> base

\* the condition under which a jump instruction in stage 1 is taken
jump_condition(op, flags) ==
    CASE op = "Jmp" -> TRUE
      [] op = "Jo" -> flags.overflow
      [] op = "Jno" -> ~flags.overflow
      [] op = "Js" -> flags.sign
      [] op = "Jns" -> ~flags.sign
      [] op = "Jz" -> flags.zero
      [] op = "Jnz" -> ~flags.zero
      [] op = "Jc" -> flags.carry
      [] op = "Jnc" -> ~flags.carry
      [] op = "Jna" -> ~flags.carry \/ flags.zero
      [] op = "Ja" -> flags.carry /\ ~flags.zero
      [] op = "Jl" -> flags.sign # flags.overflow
      [] op = "Jge" -> flags.sign = flags.overflow
      [] op = "Jle" -> flags.zero \/ (flags.sign # flags.overflow)
      [] op = "Jg" -> ~flags.zero /\ (flags.sign = flags.overflow)
      [] op = "Jlc" -> flags.logical_carry
      [] op = "Jnlc" -> ~flags.logical_carry

JumpOps == {"Jmp", "Jo", "Jno", "Js", "Jns", "Jz", "Jnz", "Jc", "Jnc", "Jna",
            "Ja", "Jl", "Jge", "Jle", "Jg", "Jlc", "Jnlc"}

\* a forwarding variant: stage 1 reads the flags stage 2 has just computed
stage1_flags_forwarded(r) == r.new_flags

\* the flag frame the stage 1 match reads: self.flags, which is only
\* replaced by new_flags after both stages have run
stage1_flags(r) == r.cpu.flags

\* Stage 1 of clock: r is the result of stage 2
stage1(r) ==
    LET c == r.cpu
        ins == c.stage1_instruction
        flags == stage1_flags(r)
        mem_data == read(r.mem, r.vga, c.spr.pc)
        base == [cpu |-> c, fetch_stage1 |-> TRUE, jump |-> FALSE,
                 new_flags |-> r.new_flags, mem_data |-> mem_data]
        and_cc == logic_op_stage1(c, "c", "c", bitand)
        and_dd == logic_op_stage1(c, "d", "d", bitand)
    IN  CASE ins.op = "Mov" ->
                IF ins.x = "#"
                THEN [base EXCEPT !.cpu.constant = mem_data, !.fetch_stage1 = FALSE]
                ELSE base
          [] ins.op = "MovWord" ->
                [base EXCEPT !.cpu = store_word(c, ins.y, load_word(c, ins.x))]
          [] ins.op = "DecWord" ->
                [base EXCEPT !.cpu.spr[ins.x] = Word(@ + WORD_MOD - 1)]
          [] ins.op \in JumpOps ->
                IF jump_condition(ins.op, flags)
                THEN [base EXCEPT !.cpu = jump_to(c, ins.x), !.jump = TRUE]
                ELSE base
          [] ins.op = "Shl" ->
                LET sh == shift_op_stage1(c, ins.x, shift_left)
                IN  [base EXCEPT !.cpu = sh.cpu, !.new_flags.logical_carry = sh.carry]
          [] ins.op = "Shr" ->
                LET sh == shift_op_stage1(c, ins.x, shift_right)
                IN  [base EXCEPT !.cpu = sh.cpu, !.new_flags.logical_carry = sh.carry]
          [] ins.op \in {"Add", "Addc"} ->
                [base EXCEPT !.cpu = arithmetic_op_stage1(c, ins.x, ins.y, FALSE)]
          [] ins.op \in {"Inc", "Incc"} ->
                [base EXCEPT !.cpu = [c EXCEPT !.rhs_latch = 0, !.lhs_latch = c.gpr[ins.x]]]
          [] ins.op \in {"Sub", "Subb", "Cmp"} ->
                [base EXCEPT !.cpu = arithmetic_op_stage1(c, ins.x, ins.y, TRUE)]
          [] ins.op = "Dec" ->
                [base EXCEPT !.cpu = [c EXCEPT !.rhs_latch = BYTE_MAX,
                                               !.lhs_latch = c.gpr[ins.x]]]
          [] ins.op = "And" ->
                [base EXCEPT !.cpu = logic_op_stage1(c, ins.x, ins.y, bitand)]
          [] ins.op = "Or" ->
                [base EXCEPT !.cpu = logic_op_stage1(c, ins.x, ins.y, bitor)]
          [] ins.op = "Xor" ->
                [base EXCEPT !.cpu = logic_op_stage1(c, ins.x, ins.y, bitxor)]
          [] ins.op = "Not" ->
                [base EXCEPT !.cpu = [c EXCEPT !.lhs_latch = 0,
                                               !.rhs_latch = not(BYTE_MAX + 1, c.gpr[ins.x])]]
          [] ins.op = "Test" ->
                [base EXCEPT !.cpu = logic_op_stage1(c, ins.x, ins.x, bitand)]
          [] ins.op = "Push" ->
                [base EXCEPT !.cpu.spr.sp = Word(@ + WORD_MOD - 1)]
          [] ins.op = "Call" ->
                [base EXCEPT !.cpu.spr.ra = IF ins.x = "tx" THEN c.transfer
                                            ELSE c.spr[ins.x]]
          [] ins.op = "Addac" ->
                [base EXCEPT !.cpu = IF flags.carry
                                     THEN arithmetic_op_stage1(c, "a", "c", FALSE)
                                     ELSE and_cc]
          [] ins.op = "Subae" ->
                [base EXCEPT !.cpu = IF flags.carry
                                     THEN [arithmetic_op_stage1(c, "c", "d", TRUE)
                                             EXCEPT !.subae_carry = 1]
                                     ELSE [and_dd EXCEPT !.subae_carry = 0]]
          [] OTHER -> base

\* a variant that answers every suppression with a NOP
stage0_always_nop(c, fetch_stage1, fetch_stage2, mem_data) ==
    IF fetch_stage1 /\ fetch_stage2
    THEN [ins |-> decode_opcode(mem_data), fetched |-> TRUE]
    ELSE [ins |-> Nop, fetched |-> FALSE]

\* Stage 0 of clock: what the fetch leaves in stage0_instruction
stage0(c, fetch_stage1, fetch_stage2, mem_data) ==
    IF fetch_stage1 /\ fetch_stage2
    THEN [ins |-> decode_opcode(mem_data), fetched |-> TRUE]
    ELSE IF fetch_stage1 \/ fetch_stage2
    THEN [ins |-> Nop, fetched |-> FALSE]
    ELSE [ins |-> c.stage1_instruction, fetched |-> FALSE]

\* a variant that is not gated by stage 2
pc_increment_ungated(c, fetch_stage2, jump) ==
    IF ~jump
    THEN [pc |-> Word(c.spr.pc + 1), incremented |-> TRUE]
    ELSE [pc |-> c.spr.pc, incremented |-> FALSE]

\* a variant that the immediate fetch of stage 1 gates as well
pc_increment_immediate_gated(c, fetch_stage2, jump) ==
    IF fetch_stage2 /\ ~jump
       /\ ~(c.stage1_instruction.op = "Mov" /\ c.stage1_instruction.x = "#")
    THEN [pc |-> Word(c.spr.pc + 1), incremented |-> TRUE]
    ELSE [pc |-> c.spr.pc, incremented |-> FALSE]

\* the PC increment at the end of clock
pc_increment(c, fetch_stage2, jump) ==
    IF fetch_stage2 /\ ~jump
    THEN [pc |-> Word(c.spr.pc + 1), incremented |-> TRUE]
    ELSE [pc |-> c.spr.pc, incremented |-> FALSE]

NoTick ==
    [fetch_stage1 |-> TRUE, fetch_stage2 |-> TRUE, jump |-> FALSE,
     break_point |-> FALSE, mem_data |-> 0, fetched |-> FALSE,
     pc_incremented |-> FALSE]

\* the end of clock: r2 is the result of stage 2, r1 that of stage 1
clock_stage0(r2, r1) ==
    LET c1 == [r1.cpu EXCEPT !.flags = r1.new_flags]
        f == stage0(c1, r1.fetch_stage1, r2.fetch_stage2, r1.mem_data)
        p == pc_increment(c1, r2.fetch_stage2, r1.jump)
    IN  IF r2.fault # ""
        THEN [cpu |-> r2.cpu, mem |-> r2.mem, vga |-> r2.vga, uart |-> r2.uart,
              audio |-> r2.audio, fault |-> r2.fault, tick |-> NoTick]
        ELSE [cpu |-> [c1 EXCEPT !.stage0_instruction = f.ins, !.spr.pc = p.pc],
              mem |-> r2.mem, vga |-> r2.vga, uart |-> r2.uart,
              audio |-> r2.audio, fault |-> "",
              tick |-> [fetch_stage1 |-> r1.fetch_stage1,
                        fetch_stage2 |-> r2.fetch_stage2,
                        jump |-> r1.jump,
                        break_point |-> r2.break_point,
                        mem_data |-> r1.mem_data,
                        fetched |-> f.fetched,
                        pc_incremented |-> p.incremented]]

\* clock from stage 1 on
clock_stage1(r2) == clock_stage0(r2, stage1(r2))

clock(s) ==
    clock_stage1(stage2([s EXCEPT !.cpu.stage2_instruction = s.cpu.stage1_instruction,
                                  !.cpu.stage1_instruction = s.cpu.stage0_instruction]))

-----------------------------------------------------------------------------
(* The CPU specifications.  The initial states are those the test harness  *)
(* cpu::test_code builds: a new, reset Cpu whose registers and flags are   *)
(* set from a CpuState, and a program written to memory from address 0.    *)

ProgLen == 3        \* bytes of program written to memory
MaxTicks == 6       \* clock calls explored

\* opcodes the program bytes are drawn from (a byte is an opcode or the
\* immediate of the MOV before it)
OpcodeSamples ==
    { 0,      \* nop
      1,      \* mov a,#
      64,     \* mov a,[si]
      80,     \* mov [di],a
      91,     \* lodsb
      95,     \* prebranch
      96,     \* jmp tx
      105,    \* jna tx
      106,    \* ja tx
      114,    \* push a
      120,    \* pop a
      126,    \* stosb
      160,    \* inc a
      240 }   \* cmp a,b

Programs == [1..ProgLen -> OpcodeSamples]

\* the CpuState values the harness starts from
InitialStates ==
    [a : {BYTE_MAX}, b : {1}, transfer : {16}, carry : BOOLEAN, zero : BOOLEAN]

INIT_REGION_PANIC == "assertion failed: end <= 0x10000"

\* Memory::init_region(data, addr): the memory with data copied to addr, or,
\* when the region ends above the 64K of the array, the message of the panic
\* (nothing is stored)
init_region(m, data, addr) ==
    LET range == {addr + i - 1 : i \in 1..Len(data)}
        keep == {a \in range : data[a - addr + 1] # 0}
    IN  IF ~(addr + Len(data) <= WORD_MOD) THEN INIT_REGION_PANIC
        ELSE [m EXCEPT !.data = [a \in ((DOMAIN @) \ range) \cup keep |->
                                   IF a \in range THEN data[a - addr + 1] ELSE @[a]]]

\* CpuState::default()
CpuState_default ==
    [transfer |-> 0, program_counter |-> 0, return_address |-> 0,
     stack_pointer |-> 0, source_index |-> 0, destination_index |-> 0,
     a |-> 0, b |-> 0, c |-> 0, d |-> 0,
     overflow |-> FALSE, zero |-> FALSE, carry |-> FALSE,
     logical_carry |-> FALSE, sign |-> FALSE]

\* CpuState { <the fields of st>, ..Default::default() }
CpuState(st) ==
    [f \in DOMAIN CpuState_default |->
        IF f \in DOMAIN st THEN st[f] ELSE CpuState_default[f]]

\* the Cpu test_code starts the clock on
test_code_cpu(initial_state) ==
    [reset(Cpu_new) EXCEPT
        !.transfer = initial_state.transfer,
        !.spr = [pc |-> initial_state.program_counter,
                 ra |-> initial_state.return_address,
                 sp |-> initial_state.stack_pointer,
                 si |-> initial_state.source_index,
                 di |-> initial_state.destination_index],
        !.gpr = [a |-> initial_state.a, b |-> initial_state.b,
                 c |-> initial_state.c, d |-> initial_state.d],
        !.flags = [overflow |-> initial_state.overflow,
                   zero |-> initial_state.zero,
                   carry |-> initial_state.carry,
                   logical_carry |-> initial_state.logical_carry,
                   sign |-> initial_state.sign]]

test_code(st) == test_code_cpu(CpuState(st))

Idle == [phase |-> "idle"]

InitMachine(programs, states) ==
    /\ \E program \in programs : mem = init_region(Memory_new, program, 0)
    /\ \E st \in states : cpu = test_code(st)
    /\ vga = vga_new
    /\ uart = uart_new
    /\ audio = audio_new
    /\ fault = ""
    /\ tick = NoTick
    /\ ticks = 0
    /\ vgaread = Idle
    /\ section_st = Idle
    /\ label_st = Idle
    /\ emit_st = Idle
    /\ sys = Idle

Init == InitMachine(Programs, InitialStates)

\* one call of Cpu::clock, of at most `bound` calls
ClockWithin(bound) ==
    /\ fault = ""
    /\ ticks < bound
    /\ \E r \in {clock([cpu |-> cpu, mem |-> mem, vga |-> vga, uart |-> uart,
                        audio |-> audio])} :
           /\ cpu' = r.cpu
           /\ mem' = r.mem
           /\ vga' = r.vga
           /\ uart' = r.uart
           /\ audio' = r.audio
           /\ fault' = r.fault
           /\ tick' = r.tick
    /\ ticks' = ticks + 1
    /\ UNCHANGED << vgaread, section_st, label_st, emit_st, sys >>

Clock == ClockWithin(MaxTicks)

Next == Clock

Spec == Init /\ [][Next]_vars

\* the ALU harness: one arithmetic opcode at address 0, every value of a,
\* boundary values of b, either carry flag
AluOpcodes ==
    { 136,    \* add a,b
      148,    \* addc a,b
      160,    \* inc a
      164,    \* incc a
      168,    \* sub a,b
      180,    \* subb a,b
      192,    \* dec a
      240 }   \* cmp a,b

ByteSamples == {0, 1, 127, 128, BYTE_MAX}

AluPrograms == {<< op >> : op \in AluOpcodes}

AluStates ==
    [a : 0..BYTE_MAX, b : ByteSamples, transfer : {0}, carry : BOOLEAN, zero : {FALSE}]

InitAlu == InitMachine(AluPrograms, AluStates)

SpecAlu == InitAlu /\ [][Next]_vars

-----------------------------------------------------------------------------
(* Properties of the pipeline                                               *)

\* a step of Cpu::clock that ran to its end
ClockStep == fault = "" /\ ticks' = ticks + 1 /\ fault' = ""

\* a state reached by a call of clock that ran to its end
Ticked == ticks > 0 /\ fault = ""

\* the instruction variants whose stage 2 uses the memory bus, and PREBRANCH
MemoryAccess(ins) ==
    \/ ins.op = "Mov" /\ (ins.x \in SprIndirectNames \cup {"[tx]"}
                          \/ ins.y \in SprIndirectNames \cup {"[tx]"})
    \/ ins.op \in {"Push", "Pop", "Lodsb", "Stosb"}

\* C1: when a tick suppressed the fetch both for stage 1 and for stage 2,
\* stage 0 holds at its end the instruction that was in stage 1 during the
\* tick; when exactly one suppression was active, stage 0 holds a NOP.
C1_Contention ==
    Ticked =>
        /\ (~tick.fetch_stage1 /\ ~tick.fetch_stage2)
              => cpu.stage0_instruction = cpu.stage1_instruction
        /\ (tick.fetch_stage1 # tick.fetch_stage2)
              => cpu.stage0_instruction = Nop

C1_Witness ==
    /\ Ticked
    /\ ~tick.fetch_stage1 /\ ~tick.fetch_stage2
    /\ cpu.stage1_instruction = I("Mov", "#", "a")
    /\ cpu.stage2_instruction.op = "Push"
    /\ cpu.stage0_instruction = I("Mov", "#", "a")

\* C2: in a tick whose stage 2 instruction is a memory access variant or
\* PREBRANCH the PC is not incremented and no opcode is decoded into stage 0.
C2_PcGating ==
    (Ticked /\ (MemoryAccess(cpu.stage2_instruction)
                \/ cpu.stage2_instruction.op = "Prebranch"))
        => /\ ~tick.pc_incremented
           /\ ~tick.fetched
           /\ cpu.stage0_instruction \in {Nop, cpu.stage1_instruction}

C2_Witness ==
    /\ Ticked
    /\ cpu.stage2_instruction = I("Mov", "a", "[di]")
    /\ cpu.stage1_instruction.op = "Inc"
    /\ ~tick.pc_incremented
    /\ cpu.stage0_instruction = Nop

\* C3: a conditional branch in stage 1 during a tick is decided by the flags
\* as they stood before the tick, not by those stage 2 computes in the tick.
C3_FlagLatency ==
    [][(ClockStep /\ cpu.stage0_instruction.op \in JumpOps)
          => tick'.jump = jump_condition(cpu.stage0_instruction.op, cpu.flags)]_vars

\* a branch was taken in a tick whose stage 2 instruction computed flags
\* under which it would not have been taken
C3_Witness ==
    /\ Ticked
    /\ cpu.stage1_instruction.op = "Ja"
    /\ cpu.stage2_instruction.op = "Inc"
    /\ tick.jump
    /\ ~jump_condition("Ja", cpu.flags)

ArithmeticOps == {"Add", "Addc", "Inc", "Incc", "Sub", "Subb", "Dec", "Cmp"}

\* the carry-in an arithmetic operation feeds to the adder
C4_carry_in(op, carry) ==
    CASE op \in {"Add", "Dec"} -> 0
      [] op \in {"Inc", "Sub", "Cmp"} -> 1
      [] op \in {"Addc", "Incc", "Subb"} -> IF carry THEN 1 ELSE 0

\* C4: after an arithmetic operation in stage 2 the flags are
\* carry = (lhs + rhs + carry_in > 0xFF), zero = (result = 0), sign = bit 7
\* of the result, overflow = (sign(lhs) = sign(rhs) /\ sign(lhs) # sign(result));
\* INC of 0x7F gives 0x80 with overflow and sign, INC of 0xFF gives 0 with
\* carry and zero.
C4_AluFlags ==
    [][(ClockStep /\ cpu.stage1_instruction.op \in ArithmeticOps) =>
        LET ins == cpu.stage1_instruction
            lhs == cpu.lhs_latch
            rhs == cpu.rhs_latch
            sum == lhs + rhs + C4_carry_in(ins.op, cpu.flags.carry)
            result == sum % 256
            target == IF ins.op \in {"Inc", "Incc", "Dec"} THEN ins.x ELSE ins.y
        IN  /\ cpu'.flags.carry = (sum > 255)
            /\ cpu'.flags.zero = (result = 0)
            /\ cpu'.flags.sign = (result >= 128)
            /\ cpu'.flags.overflow = (((lhs >= 128) = (rhs >= 128))
                                       /\ ((lhs >= 128) # (result >= 128)))
            /\ (ins.op = "Inc" /\ lhs = 127) =>
                   /\ cpu'.gpr[target] = 128
                   /\ cpu'.flags.overflow /\ cpu'.flags.sign
                   /\ ~cpu'.flags.zero /\ ~cpu'.flags.carry
            /\ (ins.op = "Inc" /\ lhs = BYTE_MAX) =>
                   /\ cpu'.gpr[target] = 0
                   /\ cpu'.flags.carry /\ cpu'.flags.zero
                   /\ ~cpu'.flags.sign /\ ~cpu'.flags.overflow]_vars

\* INC a has run on a = 0x7F: a is 0x80, overflow and sign are set
C4_Witness ==
    /\ Ticked
    /\ cpu.stage2_instruction = I("Inc", "a", "")
    /\ cpu.lhs_latch = 127
    /\ cpu.gpr.a = 128
    /\ cpu.flags.overflow /\ cpu.flags.sign /\ ~cpu.flags.zero /\ ~cpu.flags.carry

\* C5: JNA in stage 1 jumps iff carry or zero is set; JA in stage 1 jumps iff
\* carry and zero are both clear.
C5_JnaJa ==
    [][ClockStep =>
        /\ (cpu.stage0_instruction = decode_opcode(105))
              => (tick'.jump = (cpu.flags.carry \/ cpu.flags.zero))
        /\ (cpu.stage0_instruction = decode_opcode(106))
              => (tick'.jump = (~cpu.flags.carry /\ ~cpu.flags.zero))]_vars

-----------------------------------------------------------------------------
(* The memory bus shared by the CPU and the VGA: the CPU side calls         *)
(* Memory::write, the VGA side (Vga::clock) calls framebuffer_read,         *)
(* tile_data_read and palette_read, and System::clock ends every CPU tick  *)
(* with reset_vga_conflict.                                                 *)

MaxCpuWrites == 3   \* calls of Memory::write explored
MaxVgaReads == 3    \* VGA-side reads explored

WriteAddrs ==
    { 16,       \* 0x0010 plain RAM
      35715,    \* 0x8B83 VGA register (v_offset high)
      35840,    \* 0x8C00 palette, entry 0 red
      35843,    \* 0x8C03 palette, entry 0 bank select
      40961,    \* 0xA001 tile data
      49152 }   \* 0xC000 framebuffer

WriteValues == {1, 2}

Apertures == {"framebuffer", "palette", "tile_data"}

\* the aperture a CPU address belongs to ("" for none), by the address map
aperture_of(addr) ==
    CASE (addr >= 49152) /\ (addr < 57344) -> "framebuffer"
      [] (addr >= 35840) /\ (addr < 36864) -> "palette"
      [] (addr >= 40960) /\ (addr < 49152) -> "tile_data"
      [] OTHER -> ""

\* the cached value Memory keeps for an aperture
last_data(m, aperture) ==
    CASE aperture = "framebuffer" -> m.last_framebuffer_data
      [] aperture = "palette" -> m.last_palette_data
      [] aperture = "tile_data" -> m.last_tile_data

\* vgaread records the last VGA-side read and two histories: for every
\* aperture, whether the CPU wrote to it since the last conflict reset, and
\* the value of the last read of it that the CPU had not written before
NoRead ==
    [n |-> 0, writes |-> 0, aperture |-> "", value |-> 0, contended |-> FALSE,
     wrote |-> [a \in Apertures |-> FALSE],
     clean |-> [a \in Apertures |-> None]]

InitVga ==
    /\ mem = Memory_new
    /\ vga = vga_new
    /\ vgaread = NoRead
    /\ cpu = reset(Cpu_new)
    /\ uart = uart_new
    /\ audio = audio_new
    /\ fault = ""
    /\ tick = NoTick
    /\ ticks = 0
    /\ section_st = Idle
    /\ label_st = Idle
    /\ emit_st = Idle
    /\ sys = Idle

vgaOther ==
    << cpu, uart, audio, fault, tick, ticks, section_st, label_st, emit_st, sys >>

\* the CPU stores a byte: Memory::write
CpuWrite ==
    \E addr \in WriteAddrs, value \in WriteValues :
        /\ vgaread.writes < MaxCpuWrites
        /\ LET w == write(mem, vga, addr, value)
           IN  /\ mem' = w.mem
               /\ vga' = w.vga
        /\ vgaread' = [vgaread EXCEPT
                         !.writes = @ + 1,
                         !.wrote = [a \in Apertures |-> @[a] \/ a = aperture_of(addr)]]
        /\ UNCHANGED vgaOther

\* what a VGA-side read leaves in vgaread
vga_side_read(aperture, r) ==
    [vgaread EXCEPT
       !.n = @ + 1,
       !.aperture = aperture,
       !.value = r.value,
       !.contended = vgaread.wrote[aperture],
       !.clean = IF vgaread.wrote[aperture] THEN @
                 ELSE [@ EXCEPT ![aperture] = Some(r.value)]]

VgaFramebufferRead ==
    \E addr \in {0, 1} :
        /\ vgaread.n < MaxVgaReads
        /\ LET r == framebuffer_read(mem, addr)
           IN  mem' = r.mem /\ vgaread' = vga_side_read("framebuffer", r)
        /\ UNCHANGED << vga, vgaOther >>

VgaTileDataRead ==
    \E addr \in {0, 1} :
        /\ vgaread.n < MaxVgaReads
        /\ LET r == tile_data_read(mem, addr)
           IN  mem' = r.mem /\ vgaread' = vga_side_read("tile_data", r)
        /\ UNCHANGED << vga, vgaOther >>

VgaPaletteRead ==
    \E index \in {0, 1} :
        /\ vgaread.n < MaxVgaReads
        /\ LET r == palette_read(mem, index)
           IN  mem' = r.mem /\ vgaread' = vga_side_read("palette", r)
        /\ UNCHANGED << vga, vgaOther >>

\* the end of a CPU tick: Memory::reset_vga_conflict
ResetVgaConflict ==
    /\ mem' = reset_vga_conflict(mem)
    /\ vgaread' = [vgaread EXCEPT !.wrote = [a \in Apertures |-> FALSE]]
    /\ UNCHANGED << vga, vgaOther >>

NextVga ==
    \/ CpuWrite
    \/ VgaFramebufferRead
    \/ VgaTileDataRead
    \/ VgaPaletteRead
    \/ ResetVgaConflict

SpecVga == InitVga /\ [][NextVga]_vars

\* C6: a VGA read of an aperture the CPU has written to since the last
\* conflict reset returns the value of the last read of that aperture made
\* without such a write, and leaves the cached value as it was.
C6_BusContention ==
    [][\A a \in Apertures :
          (vgaread'.n = vgaread.n + 1 /\ vgaread'.aperture = a
           /\ vgaread.wrote[a] /\ vgaread.clean[a] # None)
              => /\ vgaread'.value = vgaread.clean[a][1]
                 /\ last_data(mem', a) = last_data(mem, a)]_vars

\* the CPU has overwritten the framebuffer byte 1 with 2 and the VGA still
\* reads the 1 it read before
C6_Witness ==
    /\ vgaread.aperture = "framebuffer"
    /\ vgaread.contended
    /\ vgaread.clean["framebuffer"] = Some(1)
    /\ vgaread.value = 1
    /\ Get(mem.data, 49152) = 2

-----------------------------------------------------------------------------
(* Branches, immediates, reset, calls                                       *)

\* the value jump_to writes to the PC for a jump instruction, read off the
\* registers of `c`
jump_target(c, ins) == IF ins.x = "tx" THEN c.transfer ELSE c.spr[ins.x]

\* C13: in a tick whose stage 1 instruction is a jump that is taken (JMP, or a
\* conditional jump whose condition holds on the flags before the tick), the
\* tick ends with the PC on the jump target, not incremented, and with no
\* opcode fetched into stage 0; when the condition does not hold, the PC is
\* only moved by the increment.
C13_TakenBranch ==
    [][(ClockStep /\ cpu.stage0_instruction.op \in JumpOps) =>
        IF jump_condition(cpu.stage0_instruction.op, cpu.flags)
        THEN /\ cpu'.spr.pc = jump_target(cpu', cpu.stage0_instruction)
             /\ ~tick'.pc_incremented
             /\ ~tick'.fetched
             /\ cpu'.stage0_instruction = Nop
        ELSE cpu'.spr.pc = Word(cpu.spr.pc + (IF tick'.pc_incremented THEN 1 ELSE 0))]_vars

\* the instruction is a MOV whose source is the constant latch
MovImmediate(ins) == ins.op = "Mov" /\ ins.x = "#"

\* C14 (as stated): in a tick in which a MOV immediate in stage 1 captures
\* its immediate byte into the constant latch, the PC is not incremented.
C14_ImmediateGating ==
    (Ticked /\ MovImmediate(cpu.stage1_instruction)) => ~tick.pc_incremented

\* C14 (amended): in a tick in which a MOV immediate in stage 1 captures its
\* immediate byte into the constant latch, no opcode is fetched into stage 0
\* (stage 0 takes a NOP, or the MOV again under contention), and the PC is
\* incremented exactly when stage 2 does not hold the bus: the immediate
\* fetch does not gate the increment.
C14_ImmediateFetch ==
    (Ticked /\ MovImmediate(cpu.stage1_instruction)) =>
        /\ cpu.constant = tick.mem_data
        /\ ~tick.fetch_stage1
        /\ ~tick.fetched
        /\ cpu.stage0_instruction \in {Nop, cpu.stage1_instruction}
        /\ tick.pc_incremented = tick.fetch_stage2

\* MOV a,# has captured the immediate 0xF0 in a tick that stepped the PC
\* over it and put a NOP into stage 0
C14_Witness ==
    /\ Ticked
    /\ cpu.stage1_instruction = I("Mov", "#", "a")
    /\ cpu.stage2_instruction = Nop
    /\ cpu.constant = 240
    /\ tick.pc_incremented
    /\ cpu.spr.pc = 2
    /\ cpu.stage0_instruction = Nop

CPU_RESET_PC == 57344   \* 0xE000

\* the reset vectors a caller supplies: that of System::reset and 0
ResetVectors == {0, CPU_RESET_PC}

\* System::reset's call of Cpu::reset with the vector v.  Cpu::reset of cpu.rs
\* has no parameter: the vector does not reach it.
Reset(v) ==
    /\ fault = ""
    /\ cpu' = reset(cpu)
    /\ UNCHANGED << mem, vga, uart, audio, fault, tick, ticks, vgaread,
                    section_st, label_st, emit_st, sys >>

NextReset ==
    \/ Clock
    \/ \E v \in ResetVectors : Reset(v)

\* the programs reset is explored on: opcodes that leave their mark on SI,
\* DI, the flags and the latches
ResetOpcodes ==
    { 0,      \* nop
      1,      \* mov a,#
      91,     \* lodsb
      126,    \* stosb
      160,    \* inc a
      240 }   \* cmp a,b

InitReset == InitMachine([1..ProgLen -> ResetOpcodes], InitialStates)

SpecReset == InitReset /\ [][NextReset]_vars

\* C15: a reset of the CPU with the vector v leaves PC = v, SP = SI = DI = 0,
\* every flag false, NOP in the three pipeline stages, and the constant latch
\* and the ALU latches cleared.
C15_Reset ==
    [][\A v \in ResetVectors :
          Reset(v) =>
             /\ cpu'.spr.pc = v
             /\ cpu'.spr.sp = 0 /\ cpu'.spr.si = 0 /\ cpu'.spr.di = 0
             /\ \A f \in DOMAIN cpu'.flags : ~cpu'.flags[f]
             /\ cpu'.stage0_instruction = Nop
             /\ cpu'.stage1_instruction = Nop
             /\ cpu'.stage2_instruction = Nop
             /\ cpu'.constant = 0
             /\ cpu'.lhs_latch = 0 /\ cpu'.rhs_latch = 0]_vars

-----------------------------------------------------------------------------
(* assembler/eval.rs: expressions.  An expression is a tree of records     *)
(* [op, name, value, args]: op is the variant of ast::Expression, name the *)
(* identifier, value the Option<i64> of an integer literal, args the       *)
(* operand expressions.                                                    *)

Literal(v) == [op |-> "Literal", name |-> "", value |-> Some(v), args |-> << >>]
Identifier(n) == [op |-> "Identifier", name |-> n, value |-> None, args |-> << >>]
Unary(o, inner) == [op |-> o, name |-> "", value |-> None, args |-> << inner >>]
Binary(o, lhs, rhs) == [op |-> o, name |-> "", value |-> None, args |-> << lhs, rhs >>]

\* Result<i64, EvalError>: err is "" for Ok, else the variant of EvalError;
\* what is the identifier of an UndefinedSymbol
Ok(v) == [err |-> "", value |-> v, what |-> ""]
Err(e, w) == [err |-> e, value |-> 0, what |-> w]

\* the i64 a wrapping operation keeps of the exact result x: x modulo 2^64 in
\* -2^63 .. 2^63 - 1; a result within 30 bits is its own image
wrap_i64(x) ==
    IF (-1073741824 <= x) /\ (x < 1073741824) THEN x
    ELSE ((x + 2 ^ 63) % (2 ^ 64)) - 2 ^ 63

\* the quotient rounded toward zero
truncated_div(lhs, rhs) ==
    LET al == IF lhs < 0 THEN -lhs ELSE lhs
        ar == IF rhs < 0 THEN -rhs ELSE rhs
        q == al \div ar
    IN  IF (lhs < 0) = (rhs < 0) THEN q ELSE -q

\* i64::wrapping_div and i64::wrapping_rem round toward zero; i64::MIN / -1
\* wraps to i64::MIN and i64::MIN % -1 is 0
wrapping_div(lhs, rhs) == wrap_i64(truncated_div(lhs, rhs))

wrapping_rem(lhs, rhs) == lhs - rhs * truncated_div(lhs, rhs)

\* &, | and ^ of i64 in two's complement: !x is -x - 1
i64_and(lhs, rhs) ==
    CASE (lhs >= 0) /\ (rhs >= 0) -> bitand(lhs, rhs)
      [] (lhs >= 0) /\ (rhs < 0) -> lhs - bitand(lhs, -rhs - 1)
      [] (lhs < 0) /\ (rhs >= 0) -> rhs - bitand(rhs, -lhs - 1)
      [] OTHER -> -bitor(-lhs - 1, -rhs - 1) - 1

i64_or(lhs, rhs) == -i64_and(-lhs - 1, -rhs - 1) - 1

i64_xor(lhs, rhs) == i64_or(lhs, rhs) - i64_and(lhs, rhs)

SHIFT_LEFT_PANIC == "attempt to shift left with overflow"
SHIFT_RIGHT_PANIC == "attempt to shift right with overflow"

\* lhs << rhs, lhs >> rhs of i64 and (lhs as u64) >> (rhs as u64): a shift
\* amount outside 0..63 panics in a build with overflow checks and is taken
\* modulo 64 in a build without them (section_st.overflow_checks tells which);
\* a negative lhs as u64 is lhs + 2^64; << drops the bits shifted out
shift_op(op, lhs, rhs) ==
    LET amount == rhs % 64
    IN  IF ((rhs < 0) \/ (rhs >= 64)) /\ section_st.overflow_checks
        THEN Err("panic", IF op = "LeftShift" THEN SHIFT_LEFT_PANIC
                          ELSE SHIFT_RIGHT_PANIC)
        ELSE CASE op = "LeftShift" -> Ok(wrap_i64(lhs * (2 ^ amount)))
               [] op = "ArithmeticRightShift" -> Ok(lhs \div (2 ^ amount))
               [] op = "LogicalRightShift" ->
                     IF (lhs >= 0) \/ (amount = 0) THEN Ok(lhs \div (2 ^ amount))
                     ELSE Ok((2 ^ (64 - amount)) + (lhs \div (2 ^ amount)))

binary_op(op, lhs, rhs) ==
    CASE op = "Addition" -> Ok(wrap_i64(lhs + rhs))
      [] op = "Subtraction" -> Ok(wrap_i64(lhs - rhs))
      [] op = "Multiplication" -> Ok(wrap_i64(lhs * rhs))
      [] op = "Division" ->
            IF rhs = 0 THEN Err("DivideByZero", "") ELSE Ok(wrapping_div(lhs, rhs))
      [] op = "Remainder" ->
            IF rhs = 0 THEN Err("DivideByZero", "") ELSE Ok(wrapping_rem(lhs, rhs))
      [] op \in {"LeftShift", "ArithmeticRightShift", "LogicalRightShift"} ->
            shift_op(op, lhs, rhs)
      [] op = "BitwiseAnd" -> Ok(i64_and(lhs, rhs))
      [] op = "BitwiseOr" -> Ok(i64_or(lhs, rhs))
      [] op = "BitwiseXor" -> Ok(i64_xor(lhs, rhs))

\* label_set: the set of declared label names; value_map: a function from
\* label names to Option<i64>
RECURSIVE try_eval(_, _, _)
try_eval(e, label_set, value_map) ==
    CASE e.op = "Literal" ->
            IF e.value # None THEN Ok(e.value[1]) ELSE Err("InvalidLiteralValue", "")
      [] e.op = "Identifier" ->
            IF e.name \in DOMAIN value_map
            THEN IF value_map[e.name] # None
                 THEN Ok(value_map[e.name][1])
                 ELSE Err("ErrorInReferenceEval", "")
            ELSE IF e.name \in label_set
            THEN Err("MissingReferenceValue", "")
            ELSE Err("UndefinedSymbol", e.name)
      [] e.op \in {"Group", "Identity"} -> try_eval(e.args[1], label_set, value_map)
      [] e.op = "Negation" ->
            LET negated(r) == IF r.err = "" THEN Ok(wrap_i64(-r.value)) ELSE r
            IN  negated(try_eval(e.args[1], label_set, value_map))
      [] e.op = "BitwiseNot" ->
            LET inverted(r) == IF r.err = "" THEN Ok(-r.value - 1) ELSE r
            IN  inverted(try_eval(e.args[1], label_set, value_map))
      [] OTHER ->
            LET with_rhs(lhs, rhs) ==
                    IF rhs.err # "" THEN rhs
                    ELSE binary_op(e.op, lhs.value, rhs.value)
                with_lhs(lhs) ==
                    IF lhs.err # "" THEN lhs
                    ELSE with_rhs(lhs, try_eval(e.args[2], label_set, value_map))
            IN  with_lhs(try_eval(e.args[1], label_set, value_map))

\* a diagnostic: the variant of AssemblerError and what it points at
Diag(kind, first, second) == [kind |-> kind, first |-> first, second |-> second]

\* eval_or_zero: [value, errors, fault]; a panic inside try_eval unwinds
\* through it
eval_or_zero(e, label_set, value_map, errors) ==
    LET unwrapped(r) ==
            CASE r.err = "" -> [value |-> r.value, errors |-> errors, fault |-> ""]
              [] r.err = "panic" -> [value |-> 0, errors |-> errors, fault |-> r.what]
              [] r.err \in {"InvalidLiteralValue", "ErrorInReferenceEval",
                            "MissingReferenceValue"} ->
                    [value |-> 0, errors |-> errors,
                     fault |-> "internal error: entered unreachable code: uncought eval error"]
              [] r.err = "DivideByZero" ->
                    [value |-> 0, errors |-> Append(errors, Diag("DivideByZero", "", "")),
                     fault |-> ""]
              [] r.err = "UndefinedSymbol" ->
                    [value |-> 0,
                     errors |-> Append(errors, Diag("UndefinedSymbol", r.what, "")),
                     fault |-> ""]
    IN  unwrapped(try_eval(e, label_set, value_map))

-----------------------------------------------------------------------------
(* assembler/ast.rs: instructions.  An operand is named by its RegisterKind *)
(* or IoRegisterKind variant; "[SI]" is MovDestination/MovSource::Memory    *)
(* with address_source SI, "#" a MovSource::Value or JumpTarget::Value.    *)

\* the outcome of an encode function: the bytes handed to the writer, or the
\* panic of its unreachable!(msg) arm
Written(bytes) == [bytes |-> bytes, fault |-> ""]
Unreachable(msg) ==
    [bytes |-> << >>, fault |-> "internal error: entered unreachable code: " \o msg]


\* a variant of PopInstruction::new that sizes the POP of a 16-bit special
\* register as the PUSH of one is sized
PopInstruction_new_three(x) ==
    CASE x \in {"A", "B", "C", "D", "TL", "TH"} -> Some(1)
      [] x \in {"TX"} -> Some(2)
      [] x \in {"RA", "SP", "SI", "DI"} -> Some(3)
      [] OTHER -> None

\* MovInstruction::new: the emit_size it stores, None for a rejected shape
MovInstruction_new(x, y) ==
    CASE << x, y >> \in
            {<< "A", "#" >>, << "B", "#" >>, << "C", "#" >>, << "D", "#" >>,
             << "TL", "#" >>, << "TH", "#" >>} -> Some(2)
      [] << x, y >> \in
            {<< "TX", "#" >>, << "AB", "#" >>, << "CD", "#" >>} -> Some(4)
      [] << x, y >> \in
            {<< "SI", "#" >>, << "DI", "#" >>} -> Some(5)
      [] << x, y >> \in
            {<< "A", "B" >>, << "A", "C" >>, << "A", "D" >>, << "B", "A" >>,
             << "B", "C" >>, << "B", "D" >>, << "C", "A" >>, << "C", "B" >>,
             << "C", "D" >>, << "D", "A" >>, << "D", "B" >>, << "D", "C" >>,
             << "A", "TL" >>, << "A", "TH" >>, << "B", "TL" >>, << "B", "TH" >>,
             << "C", "TL" >>, << "C", "TH" >>, << "D", "TL" >>, << "D", "TH" >>,
             << "TL", "A" >>, << "TL", "B" >>, << "TL", "C" >>, << "TL", "D" >>,
             << "TH", "A" >>, << "TH", "B" >>, << "TH", "C" >>, << "TH", "D" >>,
             << "RA", "TX" >>, << "TX", "RA" >>, << "SP", "TX" >>, << "TX", "SP" >>,
             << "SI", "TX" >>, << "TX", "SI" >>, << "DI", "TX" >>, << "TX", "DI" >>,
             << "DI", "SI" >>, << "SI", "DI" >>, << "SI", "SP" >>, << "DI", "SP" >>} -> Some(1)
      [] << x, y >> \in
            {<< "A", "[SI]" >>, << "B", "[SI]" >>, << "C", "[SI]" >>, << "D", "[SI]" >>,
             << "A", "[DI]" >>, << "B", "[DI]" >>, << "C", "[DI]" >>, << "D", "[DI]" >>,
             << "A", "[TX]" >>, << "B", "[TX]" >>, << "C", "[TX]" >>, << "D", "[TX]" >>} -> Some(1)
      [] << x, y >> \in
            {<< "[SI]", "A" >>, << "[SI]", "B" >>, << "[SI]", "C" >>, << "[SI]", "D" >>,
             << "[DI]", "A" >>, << "[DI]", "B" >>, << "[DI]", "C" >>, << "[DI]", "D" >>,
             << "[TX]", "A" >>, << "[TX]", "B" >>, << "[TX]", "C" >>, << "[TX]", "D" >>} -> Some(1)
      [] OTHER -> None

\* MovInstruction::encode: lo and hi are the low and high bytes of the evaluated source
MovInstruction_encode(x, y, lo, hi) ==
    CASE (x = "A" /\ y = "#") -> Written(<< 1, lo >>)
      [] (x = "B" /\ y = "#") -> Written(<< 2, lo >>)
      [] (x = "C" /\ y = "#") -> Written(<< 3, lo >>)
      [] (x = "D" /\ y = "#") -> Written(<< 4, lo >>)
      [] (x = "TL" /\ y = "#") -> Written(<< 5, lo >>)
      [] (x = "TH" /\ y = "#") -> Written(<< 6, lo >>)
      [] (x = "TX" /\ y = "#") -> Written(<< 5, lo, 6, hi >>)
      [] (x = "AB" /\ y = "#") -> Written(<< 1, lo, 2, hi >>)
      [] (x = "CD" /\ y = "#") -> Written(<< 3, lo, 4, hi >>)
      [] (x = "SI" /\ y = "#") -> Written(<< 5, lo, 6, hi, 39 >>)
      [] (x = "DI" /\ y = "#") -> Written(<< 5, lo, 6, hi, 41 >>)
      [] (x = "A" /\ y = "B") -> Written(<< 7 >>)
      [] (x = "A" /\ y = "C") -> Written(<< 8 >>)
      [] (x = "A" /\ y = "D") -> Written(<< 9 >>)
      [] (x = "B" /\ y = "A") -> Written(<< 10 >>)
      [] (x = "B" /\ y = "C") -> Written(<< 11 >>)
      [] (x = "B" /\ y = "D") -> Written(<< 12 >>)
      [] (x = "C" /\ y = "A") -> Written(<< 13 >>)
      [] (x = "C" /\ y = "B") -> Written(<< 14 >>)
      [] (x = "C" /\ y = "D") -> Written(<< 15 >>)
      [] (x = "D" /\ y = "A") -> Written(<< 16 >>)
      [] (x = "D" /\ y = "B") -> Written(<< 17 >>)
      [] (x = "D" /\ y = "C") -> Written(<< 18 >>)
      [] (x = "TL" /\ y = "A") -> Written(<< 19 >>)
      [] (x = "TL" /\ y = "B") -> Written(<< 20 >>)
      [] (x = "TL" /\ y = "C") -> Written(<< 21 >>)
      [] (x = "TL" /\ y = "D") -> Written(<< 22 >>)
      [] (x = "TH" /\ y = "A") -> Written(<< 23 >>)
      [] (x = "TH" /\ y = "B") -> Written(<< 24 >>)
      [] (x = "TH" /\ y = "C") -> Written(<< 25 >>)
      [] (x = "TH" /\ y = "D") -> Written(<< 26 >>)
      [] (x = "A" /\ y = "TL") -> Written(<< 27 >>)
      [] (x = "B" /\ y = "TL") -> Written(<< 28 >>)
      [] (x = "C" /\ y = "TL") -> Written(<< 29 >>)
      [] (x = "D" /\ y = "TL") -> Written(<< 30 >>)
      [] (x = "A" /\ y = "TH") -> Written(<< 31 >>)
      [] (x = "B" /\ y = "TH") -> Written(<< 32 >>)
      [] (x = "C" /\ y = "TH") -> Written(<< 33 >>)
      [] (x = "D" /\ y = "TH") -> Written(<< 34 >>)
      [] (x = "RA" /\ y = "TX") -> Written(<< 35 >>)
      [] (x = "TX" /\ y = "RA") -> Written(<< 36 >>)
      [] (x = "SP" /\ y = "TX") -> Written(<< 37 >>)
      [] (x = "TX" /\ y = "SP") -> Written(<< 38 >>)
      [] (x = "SI" /\ y = "TX") -> Written(<< 39 >>)
      [] (x = "TX" /\ y = "SI") -> Written(<< 40 >>)
      [] (x = "DI" /\ y = "TX") -> Written(<< 41 >>)
      [] (x = "TX" /\ y = "DI") -> Written(<< 42 >>)
      [] (x = "DI" /\ y = "SI") -> Written(<< 43 >>)
      [] (x = "SI" /\ y = "DI") -> Written(<< 44 >>)
      [] (x = "SI" /\ y = "SP") -> Written(<< 45 >>)
      [] (x = "DI" /\ y = "SP") -> Written(<< 46 >>)
      [] (x = "A" /\ y = "[SI]") -> Written(<< 64 >>)
      [] (x = "B" /\ y = "[SI]") -> Written(<< 65 >>)
      [] (x = "C" /\ y = "[SI]") -> Written(<< 66 >>)
      [] (x = "D" /\ y = "[SI]") -> Written(<< 67 >>)
      [] (x = "A" /\ y = "[DI]") -> Written(<< 68 >>)
      [] (x = "B" /\ y = "[DI]") -> Written(<< 69 >>)
      [] (x = "C" /\ y = "[DI]") -> Written(<< 70 >>)
      [] (x = "D" /\ y = "[DI]") -> Written(<< 71 >>)
      [] (x = "A" /\ y = "[TX]") -> Written(<< 72 >>)
      [] (x = "B" /\ y = "[TX]") -> Written(<< 73 >>)
      [] (x = "C" /\ y = "[TX]") -> Written(<< 74 >>)
      [] (x = "D" /\ y = "[TX]") -> Written(<< 75 >>)
      [] (x = "[SI]" /\ y = "A") -> Written(<< 76 >>)
      [] (x = "[SI]" /\ y = "B") -> Written(<< 77 >>)
      [] (x = "[SI]" /\ y = "C") -> Written(<< 78 >>)
      [] (x = "[SI]" /\ y = "D") -> Written(<< 79 >>)
      [] (x = "[DI]" /\ y = "A") -> Written(<< 80 >>)
      [] (x = "[DI]" /\ y = "B") -> Written(<< 81 >>)
      [] (x = "[DI]" /\ y = "C") -> Written(<< 82 >>)
      [] (x = "[DI]" /\ y = "D") -> Written(<< 83 >>)
      [] (x = "[TX]" /\ y = "A") -> Written(<< 84 >>)
      [] (x = "[TX]" /\ y = "B") -> Written(<< 85 >>)
      [] (x = "[TX]" /\ y = "C") -> Written(<< 86 >>)
      [] (x = "[TX]" /\ y = "D") -> Written(<< 87 >>)
      [] OTHER -> Unreachable("invalid MOV operands")

PushInstruction_new(x) ==
    CASE x \in {"A", "B", "C", "D", "TL", "TH"} -> Some(1)
      [] x \in {"TX"} -> Some(2)
      [] x \in {"RA", "SP", "SI", "DI"} -> Some(3)
      [] OTHER -> None

PushInstruction_encode(x) ==
    CASE x \in {"A"} -> Written(<< 114 >>)
      [] x \in {"B"} -> Written(<< 115 >>)
      [] x \in {"C"} -> Written(<< 116 >>)
      [] x \in {"D"} -> Written(<< 117 >>)
      [] x \in {"TL"} -> Written(<< 118 >>)
      [] x \in {"TH"} -> Written(<< 119 >>)
      [] x \in {"TX"} -> Written(<< 118, 119 >>)
      [] x \in {"RA"} -> Written(<< 36, 118, 119 >>)
      [] x \in {"SP"} -> Written(<< 38, 118, 119 >>)
      [] x \in {"SI"} -> Written(<< 40, 118, 119 >>)
      [] x \in {"DI"} -> Written(<< 42, 118, 119 >>)
      [] OTHER -> Unreachable("invalid PUSH operand")

PopInstruction_new(x) ==
    CASE x \in {"A", "B", "C", "D", "TL", "TH"} -> Some(1)
      [] x \in {"TX"} -> Some(2)
      [] x \in {"RA", "SP", "SI", "DI"} -> Some(4)
      [] OTHER -> None

PopInstruction_encode(x) ==
    CASE x \in {"A"} -> Written(<< 120 >>)
      [] x \in {"B"} -> Written(<< 121 >>)
      [] x \in {"C"} -> Written(<< 122 >>)
      [] x \in {"D"} -> Written(<< 123 >>)
      [] x \in {"TL"} -> Written(<< 124 >>)
      [] x \in {"TH"} -> Written(<< 125 >>)
      [] x \in {"TX"} -> Written(<< 125, 124 >>)
      [] x \in {"RA"} -> Written(<< 125, 124, 0, 35 >>)
      [] x \in {"SP"} -> Written(<< 125, 124, 0, 37 >>)
      [] x \in {"SI"} -> Written(<< 125, 124, 0, 39 >>)
      [] x \in {"DI"} -> Written(<< 125, 124, 0, 41 >>)
      [] OTHER -> Unreachable("invalid POP operand")

\* IncInstruction::new .. SubaeInstruction::new (Push and Pop apart): whether
\* the constructor of the one-byte instruction `kind` returns Some
RegisterInstruction_new(kind, x, y) ==
    CASE kind = "Inc" ->
            x \in {"A", "B", "C", "D", "SI", "DI"} /\ y = ""
      [] kind = "Incc" ->
            x \in {"A", "B", "C", "D", "SI"} /\ y = ""
      [] kind = "Dec" ->
            x \in {"A", "B", "C", "D", "SI", "DI"} /\ y = ""
      [] kind = "Shl" ->
            x \in {"A", "B", "C", "D"} /\ y = ""
      [] kind = "Shr" ->
            x \in {"A", "B", "C", "D"} /\ y = ""
      [] kind = "Not" ->
            x \in {"A", "B", "C", "D"} /\ y = ""
      [] kind = "Test" ->
            x \in {"A", "B", "C", "D"} /\ y = ""
      [] kind = "Add" ->
            << x, y >> \in
            {<< "A", "B" >>, << "A", "C" >>, << "A", "D" >>, << "B", "A" >>,
             << "B", "B" >>, << "B", "C" >>, << "B", "D" >>, << "C", "A" >>,
             << "C", "B" >>, << "C", "D" >>, << "D", "A" >>, << "D", "B" >>,
             << "D", "C" >>}
      [] kind = "Addc" ->
            << x, y >> \in
            {<< "A", "B" >>, << "A", "C" >>, << "A", "D" >>, << "B", "A" >>,
             << "B", "B" >>, << "B", "C" >>, << "B", "D" >>, << "C", "A" >>,
             << "C", "B" >>, << "C", "D" >>, << "D", "A" >>, << "D", "B" >>,
             << "D", "C" >>}
      [] kind = "Sub" ->
            << x, y >> \in
            {<< "A", "B" >>, << "A", "C" >>, << "A", "D" >>, << "B", "A" >>,
             << "B", "C" >>, << "B", "D" >>, << "C", "A" >>, << "C", "B" >>,
             << "C", "D" >>, << "D", "A" >>, << "D", "B" >>, << "D", "C" >>}
      [] kind = "Subb" ->
            << x, y >> \in
            {<< "A", "B" >>, << "A", "C" >>, << "A", "D" >>, << "B", "A" >>,
             << "B", "C" >>, << "B", "D" >>, << "C", "A" >>, << "C", "B" >>,
             << "C", "D" >>, << "D", "A" >>, << "D", "B" >>, << "D", "C" >>}
      [] kind = "And" ->
            << x, y >> \in
            {<< "A", "B" >>, << "A", "C" >>, << "A", "D" >>, << "B", "A" >>,
             << "B", "C" >>, << "B", "D" >>, << "C", "A" >>, << "C", "B" >>,
             << "C", "D" >>, << "D", "A" >>, << "D", "B" >>, << "D", "C" >>}
      [] kind = "Or" ->
            << x, y >> \in
            {<< "A", "B" >>, << "A", "C" >>, << "A", "D" >>, << "B", "A" >>,
             << "B", "C" >>, << "B", "D" >>, << "C", "A" >>, << "C", "B" >>,
             << "C", "D" >>, << "D", "A" >>, << "D", "B" >>, << "D", "C" >>}
      [] kind = "Xor" ->
            << x, y >> \in
            {<< "A", "B" >>, << "A", "C" >>, << "A", "D" >>, << "B", "A" >>,
             << "B", "C" >>, << "B", "D" >>, << "C", "A" >>, << "C", "B" >>,
             << "C", "D" >>, << "D", "A" >>, << "D", "B" >>, << "D", "C" >>,
             << "A", "A" >>, << "B", "B" >>, << "C", "C" >>, << "D", "D" >>}
      [] kind = "Cmp" ->
            << x, y >> \in
            {<< "A", "B" >>, << "A", "C" >>, << "A", "D" >>, << "B", "A" >>,
             << "B", "C" >>, << "B", "D" >>, << "C", "A" >>, << "C", "B" >>,
             << "C", "D" >>, << "D", "A" >>, << "D", "B" >>, << "D", "C" >>}
      [] kind = "Addac" ->
            << x, y >> \in
            {<< "C", "A" >>}
      [] kind = "Subae" ->
            << x, y >> \in
            {<< "D", "C" >>}
      [] OTHER -> FALSE

RegisterInstruction_encode(kind, x, y) ==
    CASE kind = "Inc" ->
            (CASE (x = "A" /\ y = "") -> Written(<< 160 >>)
               [] (x = "B" /\ y = "") -> Written(<< 161 >>)
               [] (x = "C" /\ y = "") -> Written(<< 162 >>)
               [] (x = "D" /\ y = "") -> Written(<< 163 >>)
               [] (x = "SI" /\ y = "") -> Written(<< 53 >>)
               [] (x = "DI" /\ y = "") -> Written(<< 54 >>)
               [] OTHER -> Unreachable("invalid INC operand"))
      [] kind = "Incc" ->
            (CASE (x = "A" /\ y = "") -> Written(<< 164 >>)
               [] (x = "B" /\ y = "") -> Written(<< 165 >>)
               [] (x = "C" /\ y = "") -> Written(<< 166 >>)
               [] (x = "D" /\ y = "") -> Written(<< 167 >>)
               [] (x = "SI" /\ y = "") -> Written(<< 52 >>)
               [] OTHER -> Unreachable("invalid INCC operand"))
      [] kind = "Dec" ->
            (CASE (x = "A" /\ y = "") -> Written(<< 192 >>)
               [] (x = "B" /\ y = "") -> Written(<< 193 >>)
               [] (x = "C" /\ y = "") -> Written(<< 194 >>)
               [] (x = "D" /\ y = "") -> Written(<< 195 >>)
               [] (x = "SI" /\ y = "") -> Written(<< 50 >>)
               [] (x = "DI" /\ y = "") -> Written(<< 51 >>)
               [] OTHER -> Unreachable("invalid DEC operand"))
      [] kind = "Shl" ->
            (CASE (x = "A" /\ y = "") -> Written(<< 128 >>)
               [] (x = "B" /\ y = "") -> Written(<< 129 >>)
               [] (x = "C" /\ y = "") -> Written(<< 130 >>)
               [] (x = "D" /\ y = "") -> Written(<< 131 >>)
               [] OTHER -> Unreachable("invalid SHL operand"))
      [] kind = "Shr" ->
            (CASE (x = "A" /\ y = "") -> Written(<< 132 >>)
               [] (x = "B" /\ y = "") -> Written(<< 133 >>)
               [] (x = "C" /\ y = "") -> Written(<< 134 >>)
               [] (x = "D" /\ y = "") -> Written(<< 135 >>)
               [] OTHER -> Unreachable("invalid SHR operand"))
      [] kind = "Not" ->
            (CASE (x = "A" /\ y = "") -> Written(<< 236 >>)
               [] (x = "B" /\ y = "") -> Written(<< 237 >>)
               [] (x = "C" /\ y = "") -> Written(<< 238 >>)
               [] (x = "D" /\ y = "") -> Written(<< 239 >>)
               [] OTHER -> Unreachable("invalid NOT operand"))
      [] kind = "Test" ->
            (CASE (x = "A" /\ y = "") -> Written(<< 252 >>)
               [] (x = "B" /\ y = "") -> Written(<< 253 >>)
               [] (x = "C" /\ y = "") -> Written(<< 254 >>)
               [] (x = "D" /\ y = "") -> Written(<< 255 >>)
               [] OTHER -> Unreachable("invalid TEST operand"))
      [] kind = "Add" ->
            (CASE (x = "A" /\ y = "B") -> Written(<< 136 >>)
               [] (x = "A" /\ y = "C") -> Written(<< 137 >>)
               [] (x = "A" /\ y = "D") -> Written(<< 138 >>)
               [] (x = "B" /\ y = "A") -> Written(<< 139 >>)
               [] (x = "B" /\ y = "B") -> Written(<< 89 >>)
               [] (x = "B" /\ y = "C") -> Written(<< 140 >>)
               [] (x = "B" /\ y = "D") -> Written(<< 141 >>)
               [] (x = "C" /\ y = "A") -> Written(<< 142 >>)
               [] (x = "C" /\ y = "B") -> Written(<< 143 >>)
               [] (x = "C" /\ y = "D") -> Written(<< 144 >>)
               [] (x = "D" /\ y = "A") -> Written(<< 145 >>)
               [] (x = "D" /\ y = "B") -> Written(<< 146 >>)
               [] (x = "D" /\ y = "C") -> Written(<< 147 >>)
               [] OTHER -> Unreachable("invalid ADD operand"))
      [] kind = "Addc" ->
            (CASE (x = "A" /\ y = "B") -> Written(<< 148 >>)
               [] (x = "A" /\ y = "C") -> Written(<< 149 >>)
               [] (x = "A" /\ y = "D") -> Written(<< 150 >>)
               [] (x = "B" /\ y = "A") -> Written(<< 151 >>)
               [] (x = "B" /\ y = "B") -> Written(<< 88 >>)
               [] (x = "B" /\ y = "C") -> Written(<< 152 >>)
               [] (x = "B" /\ y = "D") -> Written(<< 153 >>)
               [] (x = "C" /\ y = "A") -> Written(<< 154 >>)
               [] (x = "C" /\ y = "B") -> Written(<< 155 >>)
               [] (x = "C" /\ y = "D") -> Written(<< 156 >>)
               [] (x = "D" /\ y = "A") -> Written(<< 157 >>)
               [] (x = "D" /\ y = "B") -> Written(<< 158 >>)
               [] (x = "D" /\ y = "C") -> Written(<< 159 >>)
               [] OTHER -> Unreachable("invalid ADDC operand"))
      [] kind = "Sub" ->
            (CASE (x = "A" /\ y = "B") -> Written(<< 168 >>)
               [] (x = "A" /\ y = "C") -> Written(<< 169 >>)
               [] (x = "A" /\ y = "D") -> Written(<< 170 >>)
               [] (x = "B" /\ y = "A") -> Written(<< 171 >>)
               [] (x = "B" /\ y = "C") -> Written(<< 172 >>)
               [] (x = "B" /\ y = "D") -> Written(<< 173 >>)
               [] (x = "C" /\ y = "A") -> Written(<< 174 >>)
               [] (x = "C" /\ y = "B") -> Written(<< 175 >>)
               [] (x = "C" /\ y = "D") -> Written(<< 176 >>)
               [] (x = "D" /\ y = "A") -> Written(<< 177 >>)
               [] (x = "D" /\ y = "B") -> Written(<< 178 >>)
               [] (x = "D" /\ y = "C") -> Written(<< 179 >>)
               [] OTHER -> Unreachable("invalid SUB operand"))
      [] kind = "Subb" ->
            (CASE (x = "A" /\ y = "B") -> Written(<< 180 >>)
               [] (x = "A" /\ y = "C") -> Written(<< 181 >>)
               [] (x = "A" /\ y = "D") -> Written(<< 182 >>)
               [] (x = "B" /\ y = "A") -> Written(<< 183 >>)
               [] (x = "B" /\ y = "C") -> Written(<< 184 >>)
               [] (x = "B" /\ y = "D") -> Written(<< 185 >>)
               [] (x = "C" /\ y = "A") -> Written(<< 186 >>)
               [] (x = "C" /\ y = "B") -> Written(<< 187 >>)
               [] (x = "C" /\ y = "D") -> Written(<< 188 >>)
               [] (x = "D" /\ y = "A") -> Written(<< 189 >>)
               [] (x = "D" /\ y = "B") -> Written(<< 190 >>)
               [] (x = "D" /\ y = "C") -> Written(<< 191 >>)
               [] OTHER -> Unreachable("invalid SUBB operand"))
      [] kind = "And" ->
            (CASE (x = "A" /\ y = "B") -> Written(<< 196 >>)
               [] (x = "A" /\ y = "C") -> Written(<< 197 >>)
               [] (x = "A" /\ y = "D") -> Written(<< 198 >>)
               [] (x = "B" /\ y = "A") -> Written(<< 199 >>)
               [] (x = "B" /\ y = "C") -> Written(<< 200 >>)
               [] (x = "B" /\ y = "D") -> Written(<< 201 >>)
               [] (x = "C" /\ y = "A") -> Written(<< 202 >>)
               [] (x = "C" /\ y = "B") -> Written(<< 203 >>)
               [] (x = "C" /\ y = "D") -> Written(<< 204 >>)
               [] (x = "D" /\ y = "A") -> Written(<< 205 >>)
               [] (x = "D" /\ y = "B") -> Written(<< 206 >>)
               [] (x = "D" /\ y = "C") -> Written(<< 207 >>)
               [] OTHER -> Unreachable("invalid AND operand"))
      [] kind = "Or" ->
            (CASE (x = "A" /\ y = "B") -> Written(<< 208 >>)
               [] (x = "A" /\ y = "C") -> Written(<< 209 >>)
               [] (x = "A" /\ y = "D") -> Written(<< 210 >>)
               [] (x = "B" /\ y = "A") -> Written(<< 211 >>)
               [] (x = "B" /\ y = "C") -> Written(<< 212 >>)
               [] (x = "B" /\ y = "D") -> Written(<< 213 >>)
               [] (x = "C" /\ y = "A") -> Written(<< 214 >>)
               [] (x = "C" /\ y = "B") -> Written(<< 215 >>)
               [] (x = "C" /\ y = "D") -> Written(<< 216 >>)
               [] (x = "D" /\ y = "A") -> Written(<< 217 >>)
               [] (x = "D" /\ y = "B") -> Written(<< 218 >>)
               [] (x = "D" /\ y = "C") -> Written(<< 219 >>)
               [] OTHER -> Unreachable("invalid OR operand"))
      [] kind = "Xor" ->
            (CASE (x = "A" /\ y = "B") -> Written(<< 220 >>)
               [] (x = "A" /\ y = "C") -> Written(<< 221 >>)
               [] (x = "A" /\ y = "D") -> Written(<< 222 >>)
               [] (x = "B" /\ y = "A") -> Written(<< 223 >>)
               [] (x = "B" /\ y = "C") -> Written(<< 224 >>)
               [] (x = "B" /\ y = "D") -> Written(<< 225 >>)
               [] (x = "C" /\ y = "A") -> Written(<< 226 >>)
               [] (x = "C" /\ y = "B") -> Written(<< 227 >>)
               [] (x = "C" /\ y = "D") -> Written(<< 228 >>)
               [] (x = "D" /\ y = "A") -> Written(<< 229 >>)
               [] (x = "D" /\ y = "B") -> Written(<< 230 >>)
               [] (x = "D" /\ y = "C") -> Written(<< 231 >>)
               [] (x = "A" /\ y = "A") -> Written(<< 232 >>)
               [] (x = "B" /\ y = "B") -> Written(<< 233 >>)
               [] (x = "C" /\ y = "C") -> Written(<< 234 >>)
               [] (x = "D" /\ y = "D") -> Written(<< 235 >>)
               [] OTHER -> Unreachable("invalid XOR operand"))
      [] kind = "Cmp" ->
            (CASE (x = "A" /\ y = "B") -> Written(<< 240 >>)
               [] (x = "A" /\ y = "C") -> Written(<< 241 >>)
               [] (x = "A" /\ y = "D") -> Written(<< 242 >>)
               [] (x = "B" /\ y = "A") -> Written(<< 243 >>)
               [] (x = "B" /\ y = "C") -> Written(<< 244 >>)
               [] (x = "B" /\ y = "D") -> Written(<< 245 >>)
               [] (x = "C" /\ y = "A") -> Written(<< 246 >>)
               [] (x = "C" /\ y = "B") -> Written(<< 247 >>)
               [] (x = "C" /\ y = "D") -> Written(<< 248 >>)
               [] (x = "D" /\ y = "A") -> Written(<< 249 >>)
               [] (x = "D" /\ y = "B") -> Written(<< 250 >>)
               [] (x = "D" /\ y = "C") -> Written(<< 251 >>)
               [] OTHER -> Unreachable("invalid CMP operand"))
      [] kind = "Addac" ->
            (CASE (x = "C" /\ y = "A") -> Written(<< 90 >>)
               [] OTHER -> Unreachable("invalid ADDAC operand"))
      [] kind = "Subae" ->
            (CASE (x = "D" /\ y = "C") -> Written(<< 47 >>)
               [] OTHER -> Unreachable("invalid ADDAC operand"))
      [] OTHER -> Unreachable("")

CallInstruction_new(x) ==
    CASE x = "#" -> Some(7)
      [] x \in {"TX", "DI"} -> Some(3)
      [] OTHER -> None

CallInstruction_encode(x, lo, hi) ==
    CASE x = "#" -> Written(<< 5, lo, 6, hi, 92, 0, 0 >>)
      [] x \in {"TX"} -> Written(<< 92, 0, 0 >>)
      [] x \in {"DI"} -> Written(<< 93, 0, 0 >>)
      [] OTHER -> Unreachable("invalid CALL operand")

CallBdInstruction_new(x) ==
    CASE x = "#" -> Some(5)
      [] x \in {"TX", "DI"} -> Some(1)
      [] OTHER -> None

CallBdInstruction_encode(x, lo, hi) ==
    CASE x = "#" -> Written(<< 5, lo, 6, hi, 92 >>)
      [] x \in {"TX"} -> Written(<< 92 >>)
      [] x \in {"DI"} -> Written(<< 93 >>)
      [] OTHER -> Unreachable("invalid CALLBD operand")

JmpInstruction_new(x) ==
    CASE x = "#" -> Some(6)
      [] x \in {"TX", "DI"} -> Some(2)
      [] OTHER -> None

JmpInstruction_encode_high_first(x, lo, hi) ==
    CASE x = "#" -> Written(<< 5, hi, 6, lo, 95, 96 >>)
      [] x \in {"TX"} -> Written(<< 95, 96 >>)
      [] x \in {"DI"} -> Written(<< 95, 113 >>)
      [] OTHER -> Unreachable("invalid JMP operand")

JmpInstruction_encode(x, lo, hi) ==
    CASE x = "#" -> Written(<< 5, lo, 6, hi, 95, 96 >>)
      [] x \in {"TX"} -> Written(<< 95, 96 >>)
      [] x \in {"DI"} -> Written(<< 95, 113 >>)
      [] OTHER -> Unreachable("invalid JMP operand")

BranchInstruction_new(x) ==
    CASE x = "#" -> Some(6)
      [] x \in {"TX"} -> Some(2)
      [] OTHER -> None

\* the opcode BranchInstruction::encode selects by the mnemonic
branch_opcode(mnemonic) ==
    CASE mnemonic = "Jo" -> Some(97)
      [] mnemonic = "Jno" -> Some(98)
      [] mnemonic = "Js" -> Some(99)
      [] mnemonic = "Jns" -> Some(100)
      [] mnemonic = "Jz" -> Some(101)
      [] mnemonic = "Jnz" -> Some(102)
      [] mnemonic = "Je" -> Some(101)
      [] mnemonic = "Jne" -> Some(102)
      [] mnemonic = "Jc" -> Some(103)
      [] mnemonic = "Jnc" -> Some(104)
      [] mnemonic = "Jnae" -> Some(104)
      [] mnemonic = "Jb" -> Some(104)
      [] mnemonic = "Jae" -> Some(103)
      [] mnemonic = "Jnb" -> Some(103)
      [] mnemonic = "Jbe" -> Some(105)
      [] mnemonic = "Jna" -> Some(105)
      [] mnemonic = "Ja" -> Some(106)
      [] mnemonic = "Jnbe" -> Some(106)
      [] mnemonic = "Jl" -> Some(107)
      [] mnemonic = "Jnge" -> Some(107)
      [] mnemonic = "Jge" -> Some(108)
      [] mnemonic = "Jnl" -> Some(108)
      [] mnemonic = "Jle" -> Some(109)
      [] mnemonic = "Jng" -> Some(109)
      [] mnemonic = "Jg" -> Some(110)
      [] mnemonic = "Jnle" -> Some(110)
      [] mnemonic = "Jlc" -> Some(111)
      [] mnemonic = "Jnlc" -> Some(112)
      [] OTHER -> None

BranchInstruction_encode(x, lo, hi, opcode) ==
    CASE x = "#" -> Written(<< 5, lo, 6, hi, 95, opcode >>)
      [] x \in {"TX"} -> Written(<< 95, opcode >>)
      [] OTHER -> Unreachable("invalid branch operand")

\* x: the destination register, y: the source I/O register
InInstruction_new(x, y) ==
    IF x # "A" THEN FALSE
    ELSE IF y = "AudioData" THEN FALSE
    ELSE TRUE

InInstruction_encode(io) ==
    CASE io \in {"UartData"} -> Written(<< 58 >>)
      [] io \in {"UartControl"} -> Written(<< 59 >>)
      [] io \in {"ControllerData"} -> Written(<< 61 >>)
      [] io \in {"VgaStatus"} -> Written(<< 49 >>)
      [] io \in {"Gpio"} -> Written(<< 62 >>)
      [] OTHER -> Unreachable("invalid IN operand")

\* x: the destination I/O register, y: the source register
OutInstruction_new(x, y) ==
    IF x \in {"UartControl", "ControllerData", "VgaStatus"} THEN FALSE
    ELSE IF y # "A" THEN FALSE
    ELSE TRUE

OutInstruction_encode(io) ==
    CASE io \in {"UartData"} -> Written(<< 57 >>)
      [] io \in {"AudioData"} -> Written(<< 60 >>)
      [] io \in {"Gpio"} -> Written(<< 55 >>)
      [] OTHER -> Unreachable("invalid OUT operand")

\* the variants of ast::Instruction that carry nothing but their mnemonic
MnemonicOnly == {"Nop", "Break", "Lodsb", "Stosb", "Ret", "RetBd", "Clc"}

\* the variants whose struct has an emit_size field
SizedKinds == {"Mov", "Push", "Pop", "Call", "CallBd", "Jmp", "Branch"}

\* the mnemonics of branch_instruction
BranchMnemonics == {"Jo", "Jno", "Js", "Jns", "Jz", "Jnz", "Je", "Jne", "Jc", "Jnc", "Jnae",
                    "Jb", "Jae", "Jnb", "Jbe", "Jna", "Ja", "Jnbe", "Jl", "Jnge", "Jge",
                    "Jnl", "Jle", "Jng", "Jg", "Jnle", "Jlc", "Jnlc"}

\* the mnemonic tokens the parser of a variant demands: out_instruction
\* demands the token `in`, as in_instruction does, and no parser takes `out`
parser_mnemonics(kind) ==
    CASE kind = "Nop" -> {"Nop", "Cnop"}
      [] kind = "Branch" -> BranchMnemonics
      [] kind = "Out" -> {"In"}
      [] OTHER -> {kind}

\* what the instruction parsers build: Some(instruction) when the parser of
\* the variant takes the mnemonic and the constructor of the variant accepts
\* the operands, None otherwise.  value is the Option<Expression> of a "#"
\* operand.  (An `in` with an I/O register first reaches out_instruction
\* only behind in_instruction's failure on that operand.)
Instruction_new(kind, mnemonic, x, y, value) ==
    LET size ==
            CASE kind = "Mov" -> MovInstruction_new(x, y)
              [] kind = "Push" -> PushInstruction_new(x)
              [] kind = "Pop" -> PopInstruction_new(x)
              [] kind = "Call" -> CallInstruction_new(x)
              [] kind = "CallBd" -> CallBdInstruction_new(x)
              [] kind = "Jmp" -> JmpInstruction_new(x)
              [] kind = "Branch" -> BranchInstruction_new(x)
              [] kind = "In" -> IF InInstruction_new(x, y) THEN Some(0) ELSE None
              [] kind = "Out" -> IF OutInstruction_new(x, y) THEN Some(0) ELSE None
              [] kind \in MnemonicOnly -> Some(0)
              [] OTHER -> IF RegisterInstruction_new(kind, x, y) THEN Some(0) ELSE None
    IN  IF (mnemonic \notin parser_mnemonics(kind)) \/ (size = None) THEN None
        ELSE Some([kind |-> kind, mnemonic |-> mnemonic, x |-> x, y |-> y,
                   value |-> value, emit_size |-> size[1]])

Instruction_emit_size(inst) ==
    CASE inst.kind = "Nop" -> 1
      [] inst.kind = "Break" -> 4
      [] inst.kind = "Lodsb" -> 1
      [] inst.kind = "Stosb" -> 1
      [] inst.kind = "Ret" -> 3
      [] inst.kind = "RetBd" -> 1
      [] inst.kind = "Clc" -> 1
      [] inst.kind \in SizedKinds -> inst.emit_size
      [] OTHER -> 1

\* `target as u8` and `(target >> 8) as u8` of an i64
low_byte(v) == v % 256
high_byte(v) == (v \div 256) % 256

\* Instruction::encode: [bytes, errors, fault]; BranchInstruction::encode
\* matches its mnemonic before it evaluates its target
Instruction_encode(inst, label_set, label_values, errors) ==
    LET ev == IF inst.value # None
              THEN eval_or_zero(inst.value[1], label_set, label_values, errors)
              ELSE [value |-> 0, errors |-> errors, fault |-> ""]
        lo == low_byte(ev.value)
        hi == high_byte(ev.value)
        opcode == branch_opcode(inst.mnemonic)
        w == CASE inst.kind = "Nop" -> Written(<< 0 >>)
               [] inst.kind = "Break" -> Written(<< 0, 63, 0, 0 >>)
               [] inst.kind = "Lodsb" -> Written(<< 91 >>)
               [] inst.kind = "Stosb" -> Written(<< 126 >>)
               [] inst.kind = "Ret" -> Written(<< 94, 0, 0 >>)
               [] inst.kind = "RetBd" -> Written(<< 94 >>)
               [] inst.kind = "Clc" -> Written(<< 127 >>)
               [] inst.kind = "Mov" -> MovInstruction_encode(inst.x, inst.y, lo, hi)
               [] inst.kind = "Push" -> PushInstruction_encode(inst.x)
               [] inst.kind = "Pop" -> PopInstruction_encode(inst.x)
               [] inst.kind = "Call" -> CallInstruction_encode(inst.x, lo, hi)
               [] inst.kind = "CallBd" -> CallBdInstruction_encode(inst.x, lo, hi)
               [] inst.kind = "Jmp" -> JmpInstruction_encode(inst.x, lo, hi)
               [] inst.kind = "Branch" ->
                     IF opcode = None THEN Unreachable("invalid branch mnemonic")
                     ELSE BranchInstruction_encode(inst.x, lo, hi, opcode[1])
               [] inst.kind = "In" -> InInstruction_encode(inst.y)
               [] inst.kind = "Out" -> OutInstruction_encode(inst.x)
               [] OTHER -> RegisterInstruction_encode(inst.kind, inst.x, inst.y)
    IN  IF (inst.kind = "Branch") /\ (opcode = None)
        THEN [bytes |-> << >>, errors |-> errors, fault |-> w.fault]
        ELSE IF ev.fault # ""
        THEN [bytes |-> << >>, errors |-> ev.errors, fault |-> ev.fault]
        ELSE [bytes |-> w.bytes, errors |-> ev.errors, fault |-> w.fault]

-----------------------------------------------------------------------------
(* assembler/mod.rs: statements, process_file, process_sections             *)

NoInstruction ==
    [kind |-> "", mnemonic |-> "", x |-> "", y |-> "", value |-> None, emit_size |-> 0]

\* ast::Statement.  name: the label, section or include path; value: the
\* Option<i64> of the directive's integer literal; expr: the Option<Expression>
\* of a label (None for LabelValue::Address); inst: the instruction
Statement(kind, name, value, expr, inst) ==
    [kind |-> kind, name |-> name, value |-> value, expr |-> expr, inst |-> inst]

SectionDirective(name, base) == Statement("SectionDirective", name, base, None, NoInstruction)
IncludeDirective(path) == Statement("IncludeDirective", path, None, None, NoInstruction)
OriginDirective(value) == Statement("OriginDirective", "", value, None, NoInstruction)
OffsetDirective(value) == Statement("OffsetDirective", "", value, None, NoInstruction)
AlignDirective(value) == Statement("AlignDirective", "", value, None, NoInstruction)
LabelAddress(name) == Statement("Label", name, None, None, NoInstruction)
LabelExpression(name, e) == Statement("Label", name, None, Some(e), NoInstruction)
InstructionStatement(inst) == Statement("Instruction", "", None, None, inst)

Statement_emit_size(statement) ==
    IF statement.kind = "Instruction" THEN Instruction_emit_size(statement.inst) ELSE 0

\* u16::try_from(i64)
try_from_u16(v) == IF (v >= 0) /\ (v < WORD_MOD) THEN Some(v) ELSE None

unwrap_or(option, default) == IF option # None THEN option[1] ELSE default

\* the position of the section `name` in the IndexMap, 0 when it has none
index_of(sections, name) ==
    IF \E i \in 1..Len(sections) : sections[i].name = name
    THEN CHOOSE i \in 1..Len(sections) : sections[i].name = name
    ELSE 0

\* sections.entry(name).or_default()
entry_or_default(sections, name) ==
    IF index_of(sections, name) # 0 THEN sections
    ELSE Append(sections, [name |-> name, base |-> None, statements |-> << >>])

\* the SectionDirective arm of process_file
place_section(st, directive) ==
    LET st1 == [st EXCEPT !.current_section = Some(directive.name),
                          !.default_base = Some(0)]
        sections == entry_or_default(st.sections, directive.name)
        i == index_of(sections, directive.name)
    IN  IF directive.value = None THEN st1
        ELSE IF sections[i].base # None
        THEN [st1 EXCEPT !.sections = sections,
                         !.errors = Append(@, Diag("DuplicateSectionBase", directive.name, ""))]
        ELSE [st1 EXCEPT !.sections =
                 [sections EXCEPT ![i].base = Some(directive.value[1] % WORD_MOD)]]

\* the OriginDirective arm of process_file
place_origin(st, directive) ==
    IF st.default_base = None
    THEN IF try_from_u16(unwrap_or(directive.value, 0)) # None
         THEN [st EXCEPT !.default_base = try_from_u16(unwrap_or(directive.value, 0))]
         ELSE [st EXCEPT !.errors = Append(@, Diag("InvalidValue", "OriginDirective", ""))]
    ELSE [st EXCEPT !.errors = Append(@, Diag("InvalidOriginDirective", "", ""))]

\* the label bookkeeping with a later definition replacing the earlier one
place_label_last_wins(st, statement) ==
    IF statement.kind = "Label"
    THEN [st EXCEPT !.label_set = @ \cup {statement.name}]
    ELSE st

\* the label bookkeeping every other statement starts with
place_label(st, statement) ==
    IF statement.kind = "Label"
    THEN IF statement.name \in st.label_set
         THEN [st EXCEPT !.errors = Append(@, Diag("DuplicateLabel", statement.name, ""))]
         ELSE [st EXCEPT !.label_set = @ \cup {statement.name}]
    ELSE st

\* the loop "Place statements into sections" from statement i of `file` on;
\* files maps a path the file server knows to the statements of that file
RECURSIVE place_statements(_, _, _, _, _)
place_statements(files, file, i, st, allow_include) ==
    IF i > Len(files[file]) THEN st
    ELSE LET statement == files[file][i]
         IN  CASE statement.kind = "SectionDirective" ->
                    place_statements(files, file, i + 1,
                                     place_section(st, statement), allow_include)
               [] statement.kind = "IncludeDirective" ->
                    place_statements(files, file, i + 1,
                        IF allow_include
                        THEN IF statement.name \in DOMAIN files
                             THEN place_statements(files, statement.name, 1, st,
                                                   allow_include)
                             ELSE [st EXCEPT !.errors =
                                     Append(@, Diag("IncludeError", statement.name, ""))]
                        ELSE [st EXCEPT !.errors =
                                Append(@, Diag("IncludeUnsupported", statement.name, ""))],
                        allow_include)
               [] statement.kind = "OriginDirective" ->
                    place_statements(files, file, i + 1,
                                     place_origin(st, statement), allow_include)
               [] OTHER ->
                    LET st1 == place_label(st, statement)
                        sections == entry_or_default(st1.sections, st1.current_section[1])
                        k == index_of(sections, st1.current_section[1])
                    IN  IF st1.current_section # None
                        THEN place_statements(files, file, i + 1,
                                 [st1 EXCEPT !.sections =
                                    [sections EXCEPT ![k].statements =
                                        Append(@, statement)]],
                                 allow_include)
                        ELSE [st1 EXCEPT !.errors =
                                Append(@, Diag("UndefinedSection", statement.kind,
                                               statement.name))]

process_file(files, file, st, allow_include) ==
    place_statements(files, file, 1, st, allow_include)

\* the panics of u16 arithmetic in a build with overflow checks
OVERFLOW_PANIC == "attempt to add with overflow"
MULTIPLY_OVERFLOW_PANIC == "attempt to multiply with overflow"

\* the overflow of a computation: "" while no u16 operation has overflowed,
\* else the panic of the first one that has
first_overflow(overflow, overflowed, panic) ==
    IF (overflow = "") /\ overflowed THEN panic ELSE overflow

\* u16::div_ceil(align) * align, before the product is reduced to 16 bits
align_up(current_address, align) == ((current_address + align - 1) \div align) * align

\* one statement of the sizing loop of process_sections; a is
\* [current_address, size, errors, stop, overflow]
size_statement(a, statement, name) ==
    LET directive ==
            CASE statement.kind = "OffsetDirective" ->
                    IF try_from_u16(unwrap_or(statement.value, 0)) # None
                    THEN [a EXCEPT !.current_address = unwrap_or(statement.value, 0)]
                    ELSE [a EXCEPT !.errors =
                            Append(@, Diag("InvalidValue", "OffsetDirective", name))]
              [] statement.kind = "AlignDirective" ->
                    IF (try_from_u16(unwrap_or(statement.value, 1)) = None)
                       \/ (unwrap_or(statement.value, 1) = 0)
                    THEN [a EXCEPT !.errors =
                            Append(@, Diag("InvalidValue", "AlignDirective", name))]
                    ELSE LET aligned == align_up(a.current_address,
                                                 unwrap_or(statement.value, 1))
                         IN  [a EXCEPT !.current_address = aligned % WORD_MOD,
                                       !.overflow = first_overflow(@, aligned >= WORD_MOD,
                                                                  MULTIPLY_OVERFLOW_PANIC)]
              [] OTHER -> a
        new_address == directive.current_address + Statement_emit_size(statement)
    IN  IF new_address < WORD_MOD
        THEN [directive EXCEPT
                !.current_address = new_address,
                !.size = IF new_address > @ THEN new_address ELSE @]
        ELSE [directive EXCEPT
                !.errors = Append(@, Diag("SectionTooLarge", name, "")),
                !.stop = TRUE]

RECURSIVE size_statements(_, _, _, _)
size_statements(a, statements, i, name) ==
    IF (i > Len(statements)) \/ a.stop THEN a
    ELSE size_statements(size_statement(a, statements[i], name), statements, i + 1, name)

\* the closure of "Find section sizes and base addresses" for the sections
\* from i on; r is [sections, default_base, errors, overflow]
RECURSIVE size_sections(_, _, _)
size_sections(raw, i, r) ==
    IF i > Len(raw) THEN r
    ELSE LET section == raw[i]
             base == IF section.base # None THEN section.base[1] ELSE r.default_base
             update_default_base == (section.base = None)
             a == size_statements([current_address |-> 0, size |-> 0,
                                   errors |-> r.errors, stop |-> FALSE,
                                   overflow |-> r.overflow],
                                  section.statements, 1, section.name)
             fits == (base + a.size) < WORD_MOD
         IN  size_sections(raw, i + 1,
                [sections |-> Append(r.sections,
                                     [name |-> section.name, base |-> base,
                                      size |-> a.size,
                                      statements |-> section.statements]),
                 default_base |-> IF fits /\ update_default_base
                                  THEN base + a.size ELSE r.default_base,
                 errors |-> IF fits THEN a.errors
                            ELSE Append(a.errors,
                                        Diag("SectionTooLarge", section.name, "")),
                 overflow |-> a.overflow])

\* the condition of "Check for overlapping sections"; the u16 sums wrap
overlapping(first, second) ==
    \/ /\ second.base >= first.base
       /\ second.base <= (first.base + first.size) % WORD_MOD
    \/ /\ (second.base + second.size) % WORD_MOD >= first.base
       /\ (second.base + second.size) % WORD_MOD <= (first.base + first.size) % WORD_MOD

\* whether evaluating that condition overflows a u16 sum it computes
overlapping_overflow(first, second) ==
    LET over1 == (first.base + first.size) >= WORD_MOD
        over2 == (second.base + second.size) >= WORD_MOD
        a == second.base >= first.base
        b == second.base <= (first.base + first.size) % WORD_MOD
        c == (second.base + second.size) % WORD_MOD >= first.base
    IN  IF a /\ over1 THEN TRUE
        ELSE IF a /\ b THEN FALSE
        ELSE over2 \/ (c /\ over1)

\* the pairs (i, j), i < j, from (i, j) on; r is [errors, overflow]
RECURSIVE check_overlaps(_, _, _, _)
check_overlaps(sections, i, j, r) ==
    IF i > Len(sections) THEN r
    ELSE IF j > Len(sections) THEN check_overlaps(sections, i + 1, i + 2, r)
    ELSE check_overlaps(sections, i, j + 1,
            [errors |-> IF overlapping(sections[i], sections[j])
                        THEN Append(r.errors,
                                    Diag("OverlappingSections", sections[i].name,
                                         sections[j].name))
                        ELSE r.errors,
             overflow |-> first_overflow(r.overflow,
                                         overlapping_overflow(sections[i], sections[j]),
                                         OVERFLOW_PANIC)])

\* [sections, errors, overflow]
process_sections(raw, default_base, errors) ==
    LET sized == size_sections(raw, 1, [sections |-> << >>, default_base |-> default_base,
                                        errors |-> errors, overflow |-> ""])
        checked == check_overlaps(sized.sections, 1, 2,
                                  [errors |-> sized.errors, overflow |-> sized.overflow])
    IN  [sections |-> sized.sections, errors |-> checked.errors,
         overflow |-> checked.overflow]

-----------------------------------------------------------------------------
(* assembler/mod.rs: evaluate_labels                                        *)

\* HashMap::insert
insert(map, key, value) ==
    [k \in (DOMAIN map) \cup {key} |-> IF k = key THEN value ELSE map[k]]

EmptyMap == [k \in {} |-> None]

\* one statement of "Evaluate positional labels"; r is [label_values,
\* label_expressions, current_address, overflow]
positional_statement(r, statement, base) ==
    LET labelled ==
            CASE statement.kind = "Label" ->
                    IF statement.expr = None
                    THEN [r EXCEPT !.label_values =
                            insert(@, statement.name, Some(r.current_address))]
                    ELSE [r EXCEPT !.label_expressions =
                            Append(@, [name |-> statement.name,
                                       expr |-> statement.expr[1]])]
              [] statement.kind = "OffsetDirective" ->
                    LET sum == base + (unwrap_or(statement.value, 0) % WORD_MOD)
                    IN  [r EXCEPT !.current_address = sum % WORD_MOD,
                                  !.overflow = first_overflow(@, sum >= WORD_MOD,
                                                              OVERFLOW_PANIC)]
              [] statement.kind = "AlignDirective" ->
                    LET align == unwrap_or(statement.value, 0) % WORD_MOD
                        aligned == align_up(r.current_address, align)
                    IN  IF align > 0
                        THEN [r EXCEPT !.current_address = aligned % WORD_MOD,
                                       !.overflow = first_overflow(@, aligned >= WORD_MOD,
                                                                   MULTIPLY_OVERFLOW_PANIC)]
                        ELSE r
              [] OTHER -> r
        sum == labelled.current_address + Statement_emit_size(statement)
    IN  [labelled EXCEPT !.current_address = sum % WORD_MOD,
                         !.overflow = first_overflow(@, sum >= WORD_MOD, OVERFLOW_PANIC)]

RECURSIVE positional_statements(_, _, _, _)
positional_statements(r, statements, i, base) ==
    IF i > Len(statements) THEN r
    ELSE positional_statements(positional_statement(r, statements[i], base),
                               statements, i + 1, base)

RECURSIVE positional_labels(_, _, _)
positional_labels(r, sections, s) ==
    IF s > Len(sections) THEN r
    ELSE positional_labels(
            positional_statements([r EXCEPT !.current_address = sections[s].base],
                                  sections[s].statements, 1, sections[s].base),
            sections, s + 1)

\* the body of the for loop of "Evaluate expression labels" for one label;
\* r is [label_values, errors, fault], fault the message of a panic inside
\* try_eval, after which nothing more is done
evaluate_expression_label(r, label, label_set) ==
    IF (r.fault # "") \/ (label.name \in DOMAIN r.label_values) THEN r
    ELSE LET e == try_eval(label.expr, label_set, r.label_values)
         IN  CASE e.err = "" ->
                    [r EXCEPT !.label_values = insert(@, label.name, Some(e.value))]
               [] e.err = "panic" -> [r EXCEPT !.fault = e.what]
               [] e.err \in {"InvalidLiteralValue", "ErrorInReferenceEval"} ->
                    [r EXCEPT !.label_values = insert(@, label.name, None)]
               [] e.err = "DivideByZero" ->
                    [label_values |-> insert(r.label_values, label.name, None),
                     errors |-> Append(r.errors, Diag("DivideByZero", label.name, "")),
                     fault |-> r.fault]
               [] e.err = "UndefinedSymbol" ->
                    [label_values |-> insert(r.label_values, label.name, None),
                     errors |-> Append(r.errors, Diag("UndefinedSymbol", e.what, "")),
                     fault |-> r.fault]
               [] e.err = "MissingReferenceValue" -> r

\* one pass of the loop over label_expressions
RECURSIVE label_pass(_, _, _, _)
label_pass(r, label_expressions, i, label_set) ==
    IF i > Len(label_expressions) THEN r
    ELSE label_pass(evaluate_expression_label(r, label_expressions[i], label_set),
                    label_expressions, i + 1, label_set)

\* a variant of the loop test that goes on while a label is without a value
pass_made_progress_pending(last_evaluated_count, label_values, label_expressions) ==
    \E i \in 1..Len(label_expressions) :
        label_expressions[i].name \notin DOMAIN label_values

\* the test at the end of a pass: whether the loop goes round again
pass_made_progress(last_evaluated_count, label_values, label_expressions) ==
    last_evaluated_count < Cardinality(DOMAIN label_values)

\* "Check for label expressions that cannot be evaluated"
RECURSIVE cyclic_expressions(_, _, _, _)
cyclic_expressions(errors, label_expressions, i, label_values) ==
    IF i > Len(label_expressions) THEN errors
    ELSE cyclic_expressions(
            IF label_expressions[i].name \notin DOMAIN label_values
            THEN Append(errors, Diag("CyclicExpression", label_expressions[i].name, ""))
            ELSE errors,
            label_expressions, i + 1, label_values)

-----------------------------------------------------------------------------
(* assembler/mod.rs: assemble.  section_st holds the input and what         *)
(* process_file and process_sections build, label_st the locals of          *)
(* evaluate_labels, emit_st the emission loop and the result.  An input is  *)
(* [files, file, allow_include, overflow_checks]: the file server's files,  *)
(* the entry file, the flag, and whether the build panics on integer        *)
(* overflow (debug) or wraps (release).                                     *)

UNWRAP_PANIC == "called Option::unwrap() on a None value"

NoResult == [tag |-> "", start |-> 0, data |-> << >>]

NoEncode == [kind |-> "", emit_size |-> 0, bytes |-> 0, position |-> 0]

InitAssembler(inputs) ==
    /\ \E input \in inputs :
          section_st = [phase |-> "start", files |-> input.files, file |-> input.file,
                        allow_include |-> input.allow_include,
                        overflow_checks |-> input.overflow_checks,
                        errors |-> << >>, sections |-> << >>, label_set |-> {},
                        current_section |-> None, default_base |-> None]
    /\ label_st = [label_values |-> EmptyMap, label_expressions |-> << >>,
                   last_evaluated_count |-> 0, passes |-> 0]
    /\ emit_st = [sections |-> << >>, s |-> 1, i |-> 1, start_address |-> 0,
                  data |-> << >>, position |-> 0, written |-> << >>,
                  last |-> NoEncode, result |-> NoResult]
    /\ cpu = reset(Cpu_new)
    /\ mem = Memory_new
    /\ vga = vga_new
    /\ uart = uart_new
    /\ audio = audio_new
    /\ fault = ""
    /\ tick = NoTick
    /\ ticks = 0
    /\ vgaread = NoRead
    /\ sys = Idle

machineVars == << cpu, mem, vga, uart, audio, tick, ticks, vgaread, sys >>

\* the outcome of a step that may have overflowed a u16
panics(overflow) == overflow /\ section_st.overflow_checks

\* the panic of a computation whose first overflow is `overflow`
panic_of(overflow) == IF section_st.overflow_checks THEN overflow ELSE ""

ProcessFile ==
    /\ fault = ""
    /\ section_st.phase = "start"
    /\ LET st == process_file(section_st.files, section_st.file,
                              [errors |-> << >>, sections |-> << >>, label_set |-> {},
                               current_section |-> None, default_base |-> None],
                              section_st.allow_include)
       IN  section_st' = [section_st EXCEPT
                            !.phase = "placed",
                            !.errors = st.errors,
                            !.sections = st.sections,
                            !.label_set = st.label_set,
                            !.current_section = st.current_section,
                            !.default_base = st.default_base]
    /\ UNCHANGED << label_st, emit_st, fault, machineVars >>

ProcessSections ==
    /\ fault = ""
    /\ section_st.phase = "placed"
    /\ LET r == process_sections(section_st.sections,
                                 unwrap_or(section_st.default_base, 0),
                                 section_st.errors)
       IN  /\ section_st' = [section_st EXCEPT
                               !.phase = IF panic_of(r.overflow) # "" THEN "panicked" ELSE "sized",
                               !.sections = r.sections,
                               !.errors = r.errors]
           /\ fault' = panic_of(r.overflow)
    /\ UNCHANGED << label_st, emit_st, machineVars >>

EvaluatePositional ==
    /\ fault = ""
    /\ section_st.phase = "sized"
    /\ LET r == positional_labels([label_values |-> EmptyMap,
                                   label_expressions |-> << >>,
                                   current_address |-> 0, overflow |-> ""],
                                  section_st.sections, 1)
       IN  /\ label_st' = [label_values |-> r.label_values,
                           label_expressions |-> r.label_expressions,
                           last_evaluated_count |-> Cardinality(DOMAIN r.label_values),
                           passes |-> 0]
           /\ section_st' = [section_st EXCEPT
                               !.phase = IF panic_of(r.overflow) # "" THEN "panicked" ELSE "loop"]
           /\ fault' = panic_of(r.overflow)
    /\ UNCHANGED << emit_st, machineVars >>

\* one iteration of the loop of "Evaluate expression labels"
LabelPass ==
    /\ fault = ""
    /\ section_st.phase = "loop"
    /\ \E r \in {label_pass([label_values |-> label_st.label_values,
                             errors |-> section_st.errors, fault |-> ""],
                            label_st.label_expressions, 1, section_st.label_set)} :
          \E again \in {pass_made_progress(label_st.last_evaluated_count, r.label_values,
                                           label_st.label_expressions)} :
             /\ label_st' = [label_st EXCEPT
                               !.label_values = r.label_values,
                               !.last_evaluated_count =
                                   IF again THEN Cardinality(DOMAIN r.label_values) ELSE @,
                               !.passes = @ + 1]
             /\ section_st' = [section_st EXCEPT
                                 !.errors = r.errors,
                                 !.phase = IF r.fault # "" THEN "panicked"
                                          ELSE IF again THEN "loop" ELSE "cyclic"]
             /\ fault' = r.fault
    /\ UNCHANGED << emit_st, machineVars >>

CyclicCheck ==
    /\ fault = ""
    /\ section_st.phase = "cyclic"
    /\ section_st' = [section_st EXCEPT
                        !.phase = "labelled",
                        !.errors = cyclic_expressions(@, label_st.label_expressions, 1,
                                                      label_st.label_values)]
    /\ UNCHANGED << label_st, emit_st, fault, machineVars >>

\* sections.sort_by_key(|section| section.base): a stable sort
RECURSIVE sort_by_key(_)
sort_by_key(sections) ==
    IF Len(sections) <= 1 THEN sections
    ELSE LET front == sort_by_key(SubSeq(sections, 1, Len(sections) - 1))
             last == sections[Len(sections)]
             keep == Cardinality({k \in 1..Len(front) : front[k].base <= last.base})
         IN  SubSeq(front, 1, keep) \o << last >> \o SubSeq(front, keep + 1, Len(front))

\* Write for Cursor<&mut Vec<u8>>: the vector grows, zero-filled, to hold the
\* bytes written at the position
write_all(data, position, bytes) ==
    LET n == IF position + Len(bytes) > Len(data) THEN position + Len(bytes) ELSE Len(data)
    IN  [k \in 1..n |->
            IF (k > position) /\ (k <= position + Len(bytes)) THEN bytes[k - position]
            ELSE IF k <= Len(data) THEN data[k]
            ELSE 0]

\* the next statement the emission loops reach from statement i of section s
RECURSIVE next_statement(_, _, _)
next_statement(sections, s, i) ==
    IF s > Len(sections) THEN [s |-> s, i |-> 1]
    ELSE IF i > Len(sections[s].statements) THEN next_statement(sections, s + 1, 1)
    ELSE [s |-> s, i |-> i]

\* assemble from the test of errors up to the emission loops
BeginEmit ==
    /\ fault = ""
    /\ section_st.phase = "labelled"
    /\ IF section_st.errors # << >>
       THEN /\ emit_st' = [emit_st EXCEPT !.result = [NoResult EXCEPT !.tag = "Err"]]
            /\ section_st' = [section_st EXCEPT !.phase = "done"]
            /\ fault' = ""
       ELSE IF section_st.sections = << >>
       THEN /\ emit_st' = [emit_st EXCEPT !.result = [NoResult EXCEPT !.tag = "Ok"]]
            /\ section_st' = [section_st EXCEPT !.phase = "done"]
            /\ fault' = ""
       ELSE LET sections == sort_by_key(section_st.sections)
                first_section == sections[1]
                last_section == sections[Len(sections)]
                start_address == first_section.base
                end_sum == last_section.base + last_section.size
                end_address == end_sum % WORD_MOD
                overflow == (end_sum >= WORD_MOD) \/ (end_address < start_address)
                length == (end_address + WORD_MOD - start_address) % WORD_MOD
                first == next_statement(sections, 1, 1)
            IN  /\ emit_st' = [emit_st EXCEPT
                                 !.sections = sections,
                                 !.s = first.s,
                                 !.i = first.i,
                                 !.start_address = start_address,
                                 !.data = [k \in 1..length |-> 0],
                                 !.position = 0,
                                 !.written = [k \in 1..Len(sections) |-> 0]]
                /\ section_st' = [section_st EXCEPT
                                    !.phase = IF panics(overflow) THEN "panicked"
                                              ELSE "emit"]
                /\ fault' = IF panics(overflow) THEN OVERFLOW_PANIC ELSE ""
    /\ UNCHANGED << label_st, machineVars >>

\* one statement of the emission loops; writer.set_position at the head of a
\* section's loop is taken with the section's first statement
EncodeStatement ==
    /\ fault = ""
    /\ section_st.phase = "emit"
    /\ emit_st.s <= Len(emit_st.sections)
    /\ LET section == emit_st.sections[emit_st.s]
           statement == section.statements[emit_st.i]
           origin == section.base - emit_st.start_address
           position == IF emit_st.i = 1 THEN origin ELSE emit_st.position
           \* directive.value().value().unwrap(), where it is Some
           offset == origin + (unwrap_or(statement.value, 0) % WORD_MOD)
           align == unwrap_or(statement.value, 0)
           e == Instruction_encode(statement.inst, section_st.label_set,
                                   label_st.label_values, section_st.errors)
           next == next_statement(emit_st.sections, emit_st.s, emit_st.i + 1)
           moved == [emit_st EXCEPT !.s = next.s, !.i = next.i,
                                    !.last = [NoEncode EXCEPT !.kind = statement.kind]]
           directive == statement.kind \in {"OffsetDirective", "AlignDirective"}
       IN  CASE directive /\ (statement.value = None) ->
                  /\ emit_st' = moved
                  /\ section_st' = [section_st EXCEPT !.phase = "panicked"]
                  /\ fault' = UNWRAP_PANIC
             [] (statement.kind = "OffsetDirective") /\ (statement.value # None) ->
                  /\ emit_st' = [moved EXCEPT !.position = offset % WORD_MOD]
                  /\ section_st' = [section_st EXCEPT
                        !.phase = IF panics(offset >= WORD_MOD) THEN "panicked" ELSE @]
                  /\ fault' = IF panics(offset >= WORD_MOD) THEN OVERFLOW_PANIC ELSE ""
             [] (statement.kind = "AlignDirective") /\ (statement.value # None) ->
                  /\ emit_st' = [moved EXCEPT
                        !.position = IF align > 0 THEN align_up(position, align)
                                     ELSE position]
                  /\ UNCHANGED << section_st, fault >>
             [] statement.kind = "Instruction" ->
                  /\ emit_st' = [moved EXCEPT
                        !.data = write_all(@, position, e.bytes),
                        !.position = position + Len(e.bytes),
                        !.written[emit_st.s] = @ + Len(e.bytes),
                        !.last = [kind |-> "Instruction",
                                  emit_size |-> Statement_emit_size(statement),
                                  bytes |-> Len(e.bytes),
                                  position |-> position]]
                  /\ section_st' = [section_st EXCEPT
                        !.errors = e.errors,
                        !.phase = IF e.fault # "" THEN "panicked" ELSE @]
                  /\ fault' = e.fault
             [] OTHER ->
                  /\ emit_st' = [moved EXCEPT !.position = position]
                  /\ UNCHANGED << section_st, fault >>
    /\ UNCHANGED << label_st, machineVars >>

\* the end of assemble once the emission loops are through
FinishEmit ==
    /\ fault = ""
    /\ section_st.phase = "emit"
    /\ emit_st.s > Len(emit_st.sections)
    /\ emit_st' = [emit_st EXCEPT !.result =
          IF section_st.errors = << >>
          THEN [tag |-> "Ok", start |-> emit_st.start_address, data |-> emit_st.data]
          ELSE [NoResult EXCEPT !.tag = "Err"]]
    /\ section_st' = [section_st EXCEPT !.phase = "done"]
    /\ UNCHANGED << label_st, fault, machineVars >>

NextAssembler ==
    \/ ProcessFile
    \/ ProcessSections
    \/ EvaluatePositional
    \/ LabelPass
    \/ CyclicCheck
    \/ BeginEmit
    \/ EncodeStatement
    \/ FinishEmit

-----------------------------------------------------------------------------
(* Inputs of assemble                                                       *)

MAIN == "<code>"

Input(files, allow_include, overflow_checks) ==
    [files |-> files, file |-> MAIN, allow_include |-> allow_include,
     overflow_checks |-> overflow_checks]

\* a file server that knows the entry file alone
OneFile(statements) == [f \in {MAIN} |-> statements]

\* a file server with the entry file and the file "inc"
TwoFiles(statements, included) ==
    [f \in {MAIN, "inc"} |-> IF f = MAIN THEN statements ELSE included]

Nop_inst == Instruction_new("Nop", "Nop", "", "", None)[1]
Ret_inst == Instruction_new("Ret", "Ret", "", "", None)[1]
Break_inst == Instruction_new("Break", "Break", "", "", None)[1]

MaxLabels == 3      \* expression labels of a program

LabelName(k) == CASE k = 1 -> "L1" [] k = 2 -> "L2" [] k = 3 -> "L3" [] k = 4 -> "L4"
                  [] OTHER -> "L5"

\* the expressions a label of n is given: a literal, the positional label,
\* any expression label (itself included), an undefined symbol, a division
\* by zero, and a sum whose operands are the last label and an undefined
\* symbol
LabelExpressions(n) ==
    {Literal(5), Identifier("P"), Identifier("U"),
     Binary("Division", Literal(6), Literal(0)),
     Binary("Addition", Identifier(LabelName(n)), Identifier("U"))}
    \cup {Identifier(LabelName(m)) : m \in 1..n}

\* section "code" with the positional label P, a NOP and n expression
\* labels, declared in the order L1..Ln or Ln..L1
LabelProgram(exprs, reversed) ==
    LET n == Len(exprs)
        labels == [k \in 1..n |->
                      LET m == IF reversed THEN n + 1 - k ELSE k
                      IN  LabelExpression(LabelName(m), exprs[m])]
    IN  << SectionDirective("code", None), InstructionStatement(Nop_inst),
           LabelAddress("P") >> \o labels

LabelPrograms(max) ==
    UNION {{LabelProgram(exprs, reversed) :
               exprs \in [1..n -> LabelExpressions(n)],
               reversed \in BOOLEAN} : n \in 0..max}

\* programs with an .include: the included file declares the label X inside
\* or before any section, the file is missing, or includes are not allowed
IncludeInputs ==
    LET user == << SectionDirective("code", None), InstructionStatement(Nop_inst),
                   LabelExpression("L1", Identifier("X")),
                   LabelExpression("L2", Identifier("L1")) >>
        early == << IncludeDirective("inc") >> \o user
        late == << SectionDirective("code", None), IncludeDirective("inc") >>
                   \o Tail(user)
    IN  {Input(TwoFiles(p, << LabelAddress("X") >>), allow, FALSE) :
            p \in {early, late}, allow \in BOOLEAN}
        \cup {Input(TwoFiles(p, << LabelExpression("X", Literal(7)) >>), TRUE, FALSE) :
                 p \in {early, late}}
        \cup {Input(OneFile(early), TRUE, FALSE)}

LabelInputs(max) ==
    {Input(OneFile(p), FALSE, checks) : p \in LabelPrograms(max), checks \in BOOLEAN}
    \cup IncludeInputs

InitLabels == InitAssembler(LabelInputs(MaxLabels))

SpecLabels == InitLabels /\ [][NextAssembler]_vars

MaxSections == 2    \* sections of a program

SectionName(k) == CASE k = 1 -> "s1" [] k = 2 -> "s2" [] k = 3 -> "s3" [] OTHER -> "s4"

\* the explicit bases a section is given; None leaves it to the default base
SectionBases == {None, Some(0), Some(1), Some(2), Some(3), Some(4), Some(8)}

SectionBodies == {Nop_inst, Ret_inst, Break_inst}

RECURSIVE SectionProgram(_, _)
SectionProgram(choices, k) ==
    IF k > Len(choices) THEN << >>
    ELSE << SectionDirective(SectionName(k), choices[k][1]),
            InstructionStatement(choices[k][2]) >> \o SectionProgram(choices, k + 1)

SectionPrograms ==
    UNION {{SectionProgram(choices, 1) :
               choices \in [1..n -> SectionBases \X SectionBodies]} : n \in 1..MaxSections}

SectionInputs ==
    {Input(OneFile(p), FALSE, checks) : p \in SectionPrograms, checks \in BOOLEAN}

InitSections == InitAssembler(SectionInputs)

SpecSections == InitSections /\ [][NextAssembler]_vars

-----------------------------------------------------------------------------
(* Label resolution                                                         *)

Range(seq) == {seq[k] : k \in 1..Len(seq)}

\* C7 (as stated): for a program with N expression labels the loop of
\* evaluate_labels makes at most N passes over the expression labels.
C7_PassBound == label_st.passes <= Len(label_st.label_expressions)

\* C7 (amended): the loop makes at most N + 1 passes: every pass but the last
\* adds an entry for at least one of the N expression labels, and the last
\* pass adds none.
C7_PassBoundPlusOne == label_st.passes <= Len(label_st.label_expressions) + 1

\* the loop has stopped after N + 1 passes over N >= 2 expression labels
C7_Witness ==
    /\ section_st.phase = "cyclic"
    /\ Len(label_st.label_expressions) >= 2
    /\ label_st.passes = Len(label_st.label_expressions) + 1

\* the identifiers an expression refers to
RECURSIVE refs(_)
refs(e) ==
    IF e.op = "Identifier" THEN {e.name}
    ELSE UNION {refs(e.args[k]) : k \in 1..Len(e.args)}

expression_names == {label_st.label_expressions[k].name :
                        k \in 1..Len(label_st.label_expressions)}

\* the expression of the first declaration of the expression label `name`
expression_of(name) ==
    LET first == CHOOSE k \in 1..Len(label_st.label_expressions) :
                    /\ label_st.label_expressions[k].name = name
                    /\ \A j \in 1..(k - 1) : label_st.label_expressions[j].name # name
    IN  label_st.label_expressions[first].expr

\* the expression labels the labels of `names` refer to
references(names) ==
    UNION {refs(expression_of(n)) \cap expression_names : n \in names}

\* the expression labels reached from `names` by one or more references
RECURSIVE reachable(_, _)
reachable(names, seen) ==
    LET more == references(names) \ seen
    IN  IF more = {} THEN seen ELSE reachable(more, seen \cup more)

\* the label is on a reference cycle or refers, directly or not, to one
on_or_depends_on_cycle(name) ==
    \E m \in reachable({name}, {}) \cup {name} : m \in reachable({m}, {})

\* the values of the labels by simultaneous rounds: each round evaluates every
\* expression label without an entry against the entries of the round before,
\* whatever the order of declaration
RECURSIVE simultaneous_rounds(_)
simultaneous_rounds(values) ==
    LET ready == {n \in expression_names \ DOMAIN values :
                     try_eval(expression_of(n), section_st.label_set, values).err
                        # "MissingReferenceValue"}
        next == [n \in (DOMAIN values) \cup ready |->
                    IF n \in DOMAIN values THEN values[n]
                    ELSE LET e == try_eval(expression_of(n), section_st.label_set, values)
                         IN  IF e.err = "" THEN Some(e.value) ELSE None]
    IN  IF ready = {} THEN values ELSE simultaneous_rounds(next)

\* the entries evaluate_labels starts its loop with: the positional labels
positional_values ==
    [n \in (DOMAIN label_st.label_values) \ expression_names |-> label_st.label_values[n]]

cyclic_reported(name) == Diag("CyclicExpression", name, "") \in Range(section_st.errors)

\* C8: once the loop has stopped and the check for unevaluated expressions is
\* through, the label values are those of the simultaneous rounds (one value
\* per resolvable label, whatever the order of declaration), every expression
\* label without an entry is reported as a cyclic expression, and every label
\* so reported is on a reference cycle or depends on one.
C8_FixedPoint ==
    (section_st.phase \in {"labelled", "emit", "done"}) =>
        /\ label_st.label_values = simultaneous_rounds(positional_values)
        /\ \A n \in expression_names \ DOMAIN label_st.label_values : cyclic_reported(n)
        /\ \A n \in expression_names : cyclic_reported(n) => on_or_depends_on_cycle(n)

-----------------------------------------------------------------------------
(* Section overlap                                                          *)

\* the addresses a sized section occupies
occupied(section) == section.base .. (section.base + section.size - 1)

overlap_reported(first, second) ==
    \E d \in Range(section_st.errors) :
        /\ d.kind = "OverlappingSections"
        /\ {d.first, d.second} = {first.name, second.name}

\* C10: when assembly is over, every two sections that occupy a common
\* address (one inside the other included, in either order of declaration)
\* have an overlapping-sections diagnostic, and assembly returned no image.
C10_OverlapDetected ==
    (section_st.phase = "done") =>
        \A i, j \in 1..Len(section_st.sections) :
            ((i < j) /\ (occupied(section_st.sections[i])
                            \cap occupied(section_st.sections[j]) # {})) =>
                /\ overlap_reported(section_st.sections[i], section_st.sections[j])
                /\ emit_st.result.tag = "Err"

-----------------------------------------------------------------------------
(* Emission                                                                 *)

MaxTail == 1        \* statements after the first instruction of a program

Registers == {"A", "B", "C", "D", "TL", "TH", "SI", "DI", "TX", "AB", "CD", "RA", "SP"}
MemoryOperands == {"[SI]", "[DI]", "[TX]"}
IoRegisters == {"UartData", "UartControl", "AudioData", "ControllerData", "VgaStatus",
                "Gpio"}

RegisterKinds == {"Push", "Pop", "Inc", "Incc", "Dec", "Shl", "Shr", "Not", "Test", "Add",
                  "Addc", "Sub", "Subb", "And", "Or", "Xor", "Cmp", "Addac", "Subae"}
JumpKinds == {"Call", "CallBd", "Jmp"}

\* the expressions of a "#" operand: a literal and the label at the end of
\* the section
ValueSamples == {Literal(4660), Identifier("end")}

Operands(kind, mnemonic, x, y, value) ==
    [kind |-> kind, mnemonic |-> mnemonic, x |-> x, y |-> y, value |-> value]

\* every mnemonic with every operand shape the parsers can hand a
\* constructor, and `out` with the operands of OutInstruction
OperandShapes ==
    {Operands(k, k, "", "", None) : k \in MnemonicOnly}
    \cup {Operands("Mov", "Mov", x, y, None) :
             x \in Registers \cup MemoryOperands, y \in Registers \cup MemoryOperands}
    \cup {Operands("Mov", "Mov", x, "#", Some(v)) :
             x \in Registers \cup MemoryOperands, v \in ValueSamples}
    \cup {Operands(k, k, x, y, None) :
             k \in RegisterKinds, x \in Registers, y \in Registers \cup {""}}
    \cup {Operands(k, k, x, "", None) : k \in JumpKinds, x \in Registers}
    \cup {Operands(k, k, "#", "", Some(v)) : k \in JumpKinds, v \in ValueSamples}
    \cup {Operands("Branch", m, x, "", None) : m \in BranchMnemonics, x \in Registers}
    \cup {Operands("Branch", m, "#", "", Some(v)) : m \in BranchMnemonics, v \in ValueSamples}
    \cup {Operands("In", "In", x, y, None) : x \in Registers, y \in IoRegisters}
    \cup {Operands("Out", m, x, y, None) :
             m \in {"In", "Out"}, x \in IoRegisters, y \in Registers}

construct(o) == Instruction_new(o.kind, o.mnemonic, o.x, o.y, o.value)

\* the instructions the assembler accepts
AcceptedInstructions == {construct(o)[1] : o \in {s \in OperandShapes : construct(s) # None}}

TailStatements ==
    {InstructionStatement(Nop_inst),
     InstructionStatement(construct(Operands("Pop", "Pop", "RA", "", None))[1]),
     InstructionStatement(construct(Operands("Jmp", "Jmp", "#", "", Some(Identifier("end"))))[1]),
     AlignDirective(Some(4)), OffsetDirective(Some(8))}

Tails == UNION {[1..n -> TailStatements] : n \in 0..MaxTail}

EmitPrograms ==
    {<< SectionDirective("code", None), InstructionStatement(inst) >> \o tail
        \o << LabelAddress("end") >> : inst \in AcceptedInstructions, tail \in Tails}

EmitInputs == {Input(OneFile(p), FALSE, checks) : p \in EmitPrograms, checks \in BOOLEAN}

InitEmit == InitAssembler(EmitInputs)

SpecEmit == InitEmit /\ [][NextAssembler]_vars

RECURSIVE sum_emit_size(_)
sum_emit_size(statements) ==
    IF statements = << >> THEN 0
    ELSE Statement_emit_size(Head(statements)) + sum_emit_size(Tail(statements))

unpadded(section) ==
    \A k \in 1..Len(section.statements) :
        section.statements[k].kind \notin {"OffsetDirective", "AlignDirective"}

\* C9: encode never panics on an accepted instruction and hands the writer as
\* many bytes as the instruction's emit_size, and when the emission loops are
\* through, the bytes written for a section without .offset and .align are
\* as many as the sum of emit_size over its statements, which is its size.
C9_EmitSize ==
    /\ (emit_st.last.kind = "Instruction") =>
          /\ fault = ""
          /\ emit_st.last.bytes = emit_st.last.emit_size
    /\ ((section_st.phase = "done") /\ (emit_st.sections # << >>)) =>
          \A s \in 1..Len(emit_st.sections) :
              unpadded(emit_st.sections[s]) =>
                  /\ emit_st.written[s] = sum_emit_size(emit_st.sections[s].statements)
                  /\ emit_st.written[s] = emit_st.sections[s].size

\* an image came out of a section that holds a POP of a 16-bit special
\* register and more, and had no .offset or .align
C9_Witness ==
    /\ section_st.phase = "done"
    /\ emit_st.result.tag = "Ok"
    /\ \E s \in 1..Len(emit_st.sections) :
          /\ unpadded(emit_st.sections[s])
          /\ \E k \in 1..Len(emit_st.sections[s].statements) :
                /\ emit_st.sections[s].statements[k].inst.kind = "Pop"
                /\ emit_st.sections[s].statements[k].inst.x = "RA"
          /\ emit_st.written[s] > 4
          /\ Len(emit_st.result.data) = emit_st.written[s]

-----------------------------------------------------------------------------
(* Section packing and the default base                                     *)

\* the statements of the entry file
entry_statements == section_st.files[MAIN]

\* a .section directive of the entry file gives the section `name` a base
explicit_base(name) ==
    \E k \in 1..Len(entry_statements) :
        /\ entry_statements[k].kind = "SectionDirective"
        /\ entry_statements[k].name = name
        /\ entry_statements[k].value # None

\* consecutive sections without an explicit base are contiguous
contiguous(first, second) == second.base = first.base + first.size

\* C11: when assembly is over, every two consecutive sections that declare no
\* explicit base are contiguous (the later one lies at the earlier one's base
\* plus its size) and have no overlapping-sections diagnostic, and a program
\* all of whose sections declare no explicit base has assembled to an image.
C11_Packing ==
    (section_st.phase = "done") =>
        /\ \A i \in 1..(Len(section_st.sections) - 1) :
              (/\ ~explicit_base(section_st.sections[i].name)
               /\ ~explicit_base(section_st.sections[i + 1].name)) =>
                  /\ contiguous(section_st.sections[i], section_st.sections[i + 1])
                  /\ ~overlap_reported(section_st.sections[i],
                                       section_st.sections[i + 1])
        /\ (\A i \in 1..Len(section_st.sections) :
               ~explicit_base(section_st.sections[i].name)) =>
                  emit_st.result.tag = "Ok"

\* programs for the default base: an optional .origin, then up to MaxSections
\* sections of one NOP, with or without an explicit base
OriginPrefixes ==
    {<< >>} \cup {<< OriginDirective(Some(v)) >> : v \in {0, 1, 16, 65535, 65536}}

OriginBases == {None, Some(0), Some(32)}

OriginPrograms ==
    UNION {{prefix \o SectionProgram(choices, 1) :
               prefix \in OriginPrefixes,
               choices \in [1..n -> OriginBases \X {Nop_inst}]} : n \in 1..MaxSections}

OriginInputs ==
    {Input(OneFile(p), FALSE, checks) : p \in OriginPrograms, checks \in BOOLEAN}

InitOrigin == InitAssembler(OriginInputs)

SpecOrigin == InitOrigin /\ [][NextAssembler]_vars

\* the value of the .origin the entry file starts with, Some(0) without one
declared_origin ==
    IF entry_statements[1].kind = "OriginDirective" THEN entry_statements[1].value
    ELSE Some(0)

\* the sections, in order of declaration, that declare no explicit base
default_sections ==
    {i \in 1..Len(section_st.sections) : ~explicit_base(section_st.sections[i].name)}

first_default_section ==
    section_st.sections[CHOOSE i \in default_sections :
                            \A j \in default_sections : i <= j]

\* C12: when assembly is over for a program that starts with .origin N (N a
\* 16-bit value) or has no .origin (N = 0), the first section declared
\* without an explicit base lies at base N, and the returned start address is
\* N when that section is the lowest one.
C12_OriginBase ==
    (/\ section_st.phase = "done"
     /\ default_sections # {}
     /\ try_from_u16(declared_origin[1]) # None) =>
        /\ first_default_section.base = declared_origin[1]
        /\ ((/\ emit_st.result.tag = "Ok"
             /\ \A i \in 1..Len(section_st.sections) :
                   section_st.sections[i].base >= first_default_section.base) =>
                emit_st.result.start = declared_origin[1])

-----------------------------------------------------------------------------
(* Emitted code on the CPU: a harness case is loaded as test_code loads it  *)
(* and clocked to completion.  label_st holds the case for the properties.  *)

MaxRunTicks == 18   \* clock calls of a run to completion

zeros(n) == [k \in 1..n |-> 0]

\* the bytes Instruction::encode writes for an instruction without labels
encoding(inst) == Instruction_encode(inst, {}, EmptyMap, << >>).bytes

Call_inst(x, value) == construct(Operands("Call", "Call", x, "", value))[1]

\* a call case: `lead` NOPs, CALL (to the register TX or to the value
\* `target`), INC a, INC c; at `target` the subroutine: `body`, RET, INC d
CallCases ==
    [target : {32, 48}, form : {"TX", "#"}, lead : {0, 1},
     body : {<< >>, << 161 >>}, a : {0, 254}]

call_bytes(case) ==
    encoding(Call_inst(case.form,
                       IF case.form = "#" THEN Some(Literal(case.target)) ELSE None))

call_main(case) == zeros(case.lead) \o call_bytes(case) \o << 160, 162 >>

call_program(case) ==
    call_main(case) \o zeros(case.target - Len(call_main(case)))
        \o case.body \o encoding(Ret_inst) \o << 163 >>

call_state(case) ==
    [transfer |-> IF case.form = "TX" THEN case.target ELSE 0, a |-> case.a]

\* the variables other than the CPU and its memory, for a harness run
InitHarness ==
    /\ vga = vga_new
    /\ uart = uart_new
    /\ audio = audio_new
    /\ fault = ""
    /\ tick = NoTick
    /\ ticks = 0
    /\ vgaread = Idle
    /\ section_st = Idle
    /\ emit_st = Idle
    /\ sys = Idle

InitCall ==
    /\ \E case \in CallCases :
          /\ label_st = case
          /\ mem = init_region(Memory_new, call_program(case), 0)
          /\ cpu = test_code(call_state(case))
    /\ InitHarness

Run == ClockWithin(MaxRunTicks)

SpecCall == InitCall /\ [][Run]_vars

\* the addresses of a call case
after_call == label_st.lead + Len(call_bytes(label_st))
ret_at == label_st.target + Len(label_st.body)

\* the RET has exchanged PC and RA: RA holds an address past the RET
returned == cpu.spr.ra > ret_at

\* C16: stage 1 of a CALL writes the target to RA; its stage 2 exchanges PC
\* and RA, so that the fetch of that tick is at the target and RA holds the
\* return address, the last byte of the CALL's encoding; the RET exchanges
\* them back, and the instructions executed after it are the INC a that
\* follows the CALL's encoding and then INC c, each once, while the INC d
\* after the RET's encoding never runs.
C16_CallRet ==
    Ticked =>
        /\ (cpu.stage1_instruction.op = "Call") => cpu.spr.ra = label_st.target
        /\ (cpu.stage2_instruction.op = "Call") =>
              /\ cpu.spr.ra = after_call - 1
              /\ cpu.spr.pc = label_st.target + 1
              /\ tick.fetched
              /\ cpu.stage0_instruction = decode_opcode(Get(mem.data, label_st.target))
        /\ (cpu.stage2_instruction.op = "Ret") =>
              /\ cpu.spr.pc = after_call
              /\ cpu.spr.ra = ret_at + 2
              /\ cpu.gpr.a = label_st.a
        /\ returned =>
              /\ cpu.stage2_instruction \in {I("Ret", "", ""), Nop, I("Inc", "a", ""),
                                             I("Inc", "c", "")}
              /\ cpu.gpr.b = Len(label_st.body)
              /\ (cpu.stage2_instruction = I("Inc", "a", "")) =>
                    (cpu.gpr.a = label_st.a + 1 /\ cpu.gpr.c = 0)
              /\ (cpu.gpr.c # 0) => (cpu.gpr.a = label_st.a + 1 /\ cpu.gpr.c = 1)
        /\ ~returned => (cpu.gpr.a = label_st.a /\ cpu.gpr.c = 0)
        /\ cpu.gpr.d = 0
        /\ (ticks = MaxRunTicks) =>
              (returned /\ cpu.gpr.a = label_st.a + 1 /\ cpu.gpr.c = 1)

\* the INC a after a CALL to a value has run, after the subroutine's INC b
\* and its RET
C16_Witness ==
    /\ Ticked
    /\ label_st.form = "#"
    /\ label_st.body # << >>
    /\ returned
    /\ cpu.stage2_instruction = I("Inc", "a", "")
    /\ cpu.gpr.a = label_st.a + 1
    /\ cpu.gpr.b = 1

\* a MOV immediate case: MOV r,#imm at the address p, the PC on p, memory 0
\* (NOP) elsewhere, every flag as `flag`; opcode 1..6 is MOV a/b/c/d/tl/th,#
MovCases == [opcode : 1..6, imm : 0..BYTE_MAX, p : {0, 3}, flag : BOOLEAN]

mov_state(case) ==
    [program_counter |-> case.p, overflow |-> case.flag, zero |-> case.flag,
     carry |-> case.flag, logical_carry |-> case.flag, sign |-> case.flag]

InitMov ==
    /\ \E case \in MovCases :
          /\ label_st = case
          /\ mem = init_region(Memory_new, << case.opcode, case.imm >>, case.p)
          /\ cpu = test_code(mov_state(case))
    /\ InitHarness

SpecMov == InitMov /\ [][Next]_vars

\* the value of the register a MOV stores to
stored(c, target) ==
    CASE target \in GprNames -> c.gpr[target]
      [] target = "tl" -> low(c.transfer)
      [] target = "th" -> high(c.transfer)

\* C17: after 4 ticks of MOV r,#imm at p the register r holds imm and the PC
\* is p + 4; the MOV goes through the three stages in the ticks 1 to 3 and
\* nothing but it and NOPs is ever in a stage (the tick that captures the
\* immediate fetches no opcode); the flags never change.
C17_MovImmediate ==
    LET mov == decode_opcode(label_st.opcode)
    IN  /\ (ticks = 4) =>
              /\ stored(cpu, mov.y) = label_st.imm
              /\ cpu.spr.pc = label_st.p + 4
        /\ cpu.stage0_instruction = (IF ticks = 1 THEN mov ELSE Nop)
        /\ cpu.stage1_instruction = (IF ticks = 2 THEN mov ELSE Nop)
        /\ cpu.stage2_instruction = (IF ticks = 3 THEN mov ELSE Nop)
        /\ (ticks = 2) => (~tick.fetched /\ cpu.constant = label_st.imm)
        /\ cpu.spr.pc = label_st.p + ticks
        /\ cpu.flags = test_code(mov_state(label_st)).flags
        /\ fault = ""

\* MOV th,#0x5B at 3 after 4 ticks: the high byte of TX is 0x5B (the opcode
\* of LODSB), the PC is 7
C17_Witness ==
    /\ ticks = 4
    /\ label_st.opcode = 6
    /\ label_st.imm = 91
    /\ label_st.p = 3
    /\ high(cpu.transfer) = 91
    /\ cpu.spr.pc = 7
    /\ cpu.spr.si = 0

\* a stack case: PUSH r1, PUSH r2, POP r3 at 0 with r1 = x, r2 = y, SP = s.
\* The stack pointers are in RAM, next to and on the program, at the top of
\* the address space, and in and around the memory-mapped I/O range.
StackPointers ==
    { 0, 1, 2, 3,
      4, 5, 6,  \* a stack byte among the two addresses fetched behind the program
      7, 16,
      35584,    \* 0x8B00: both bytes in RAM below the mapped range
      35586,    \* 0x8B02: both bytes mapped, without a register behind them
      35841,    \* 0x8C01: one byte in the palette, one mapped
      49153 }   \* 0xC001: one byte in the framebuffer, one in the tile data

StackCases ==
    [s : StackPointers, x : {0, 1, 114, 128, BYTE_MAX},
     y : {0, 2, 114, 120, 127, BYTE_MAX},     \* 114: PUSH a, 120: POP a
     r1 : {"a", "tl"}, r2 : {"b", "th"}, r3 : {"a", "c", "tl"}]

push_opcode(r) ==
    CASE r = "a" -> 114 [] r = "b" -> 115 [] r = "tl" -> 118 [] r = "th" -> 119

pop_opcode(r) == CASE r = "a" -> 120 [] r = "c" -> 122 [] r = "tl" -> 124

stack_program(case) ==
    << push_opcode(case.r1), push_opcode(case.r2), pop_opcode(case.r3) >>

stack_state(case) ==
    [stack_pointer |-> case.s,
     a |-> IF case.r1 = "a" THEN case.x ELSE 0,
     b |-> IF case.r2 = "b" THEN case.y ELSE 0,
     transfer |-> (IF case.r2 = "th" THEN case.y ELSE 0) * 256
                     + (IF case.r1 = "tl" THEN case.x ELSE 0)]

InitStack ==
    /\ \E case \in StackCases :
          /\ label_st = case
          /\ mem = init_region(Memory_new, stack_program(case), 0)
          /\ cpu = test_code(stack_state(case))
    /\ InitHarness

SpecStack == InitStack /\ [][Run]_vars

\* what the three instructions leave behind once the POP is through stage 2
\* (8 ticks): r3 = y, SP = s - 1, memory[s - 1] = x, and the PC past the
\* program's 3 bytes and the 2 fetched after them
stack_done ==
    (ticks = 8) =>
        /\ fault = ""
        /\ stored(cpu, label_st.r3) = label_st.y
        /\ cpu.spr.sp = Word(label_st.s + WORD_MOD - 1)
        /\ read(mem, vga, Word(label_st.s + WORD_MOD - 1)) = label_st.x
        /\ read(mem, vga, Word(label_st.s + WORD_MOD - 2)) = label_st.y
        /\ cpu.spr.pc = 5

\* each instruction takes effect in its own stage 2 tick, once: the first
\* PUSH writes at s - 1 in tick 3, the second at s - 2 in tick 4, the POP
\* reads at s - 2 in tick 7
stack_steps ==
    /\ (ticks = 3) => /\ cpu.stage2_instruction.op = "Push"
                      /\ read(mem, vga, Word(label_st.s + WORD_MOD - 1)) = label_st.x
                      /\ cpu.spr.sp = Word(label_st.s + WORD_MOD - 2)
    /\ (ticks = 4) => /\ cpu.stage2_instruction.op = "Push"
                      /\ read(mem, vga, Word(label_st.s + WORD_MOD - 2)) = label_st.y
                      /\ cpu.spr.sp = Word(label_st.s + WORD_MOD - 2)
    /\ (ticks = 7) => /\ cpu.stage2_instruction.op = "Pop"
                      /\ cpu.spr.sp = Word(label_st.s + WORD_MOD - 1)
    /\ (ticks \in {1, 2, 5, 6, 8}) => cpu.stage2_instruction = Nop

\* C18 (as stated): for every initial stack pointer s and all x, y.
C18_Stack == stack_done /\ stack_steps

\* the addresses Cpu::clock fetches opcodes from in the 8 ticks: the
\* program's 3 bytes and the 2 behind them
stack_fetched == 0..(Len(stack_program(label_st)) + 1)

\* the address is RAM that is neither fetched as an opcode during the run
\* nor in the memory-mapped I/O range
stack_ram(addr) ==
    /\ addr \notin stack_fetched
    /\ ~((addr >= MAP_RANGE_START) /\ (addr < MAP_RANGE_END))

\* C18 (amended): the same, for every initial stack pointer s whose two
\* stack bytes s - 1 and s - 2 are RAM outside the addresses 0..4 the CPU
\* fetches opcodes from during the 8 ticks (the program and the two bytes
\* behind it) and outside the memory-mapped I/O range.
C18_StackInRam ==
    (/\ stack_ram(Word(label_st.s + WORD_MOD - 1))
     /\ stack_ram(Word(label_st.s + WORD_MOD - 2))) => (stack_done /\ stack_steps)

\* PUSH tl, PUSH th, POP c with SP = 0 after 8 ticks: c = y, SP = 0xFFFF,
\* x at 0xFFFF
C18_Witness ==
    /\ ticks = 8
    /\ label_st.s = 0
    /\ label_st.r1 = "tl" /\ label_st.r2 = "th" /\ label_st.r3 = "c"
    /\ label_st.x = 128 /\ label_st.y = BYTE_MAX
    /\ cpu.gpr.c = BYTE_MAX
    /\ cpu.spr.sp = 65535
    /\ Get(mem.data, 65535) = 128

SubTicks == 3       \* clock calls of a run of one ALU instruction

\* a subtraction case: SUB a,b (opcode 168) on every x and y; the other SUB
\* opcodes and DEC a/b/c/d (192..195) on boundary values; either carry
SubCases ==
    [opcode : {168}, x : 0..BYTE_MAX, y : 0..BYTE_MAX, carry : BOOLEAN]
    \cup [opcode : 169..179, x : ByteSamples, y : ByteSamples, carry : BOOLEAN]
    \cup [opcode : 192..195, x : 0..BYTE_MAX, y : {0}, carry : BOOLEAN]

\* the register an ALU instruction writes its result to
alu_target(ins) == IF ins.y = "" THEN ins.x ELSE ins.y

sub_state(case) ==
    LET ins == decode_opcode(case.opcode)
        gpr == [r \in GprNames |->
                   IF r = alu_target(ins) THEN case.x
                   ELSE IF r = ins.x THEN case.y ELSE 0]
    IN  [a |-> gpr.a, b |-> gpr.b, c |-> gpr.c, d |-> gpr.d, carry |-> case.carry]

InitSub ==
    /\ \E case \in SubCases :
          /\ label_st = case
          /\ mem = init_region(Memory_new, << case.opcode >>, 0)
          /\ cpu = test_code(sub_state(case))
    /\ InitHarness

RunSub == ClockWithin(SubTicks)

SpecSub == InitSub /\ [][RunSub]_vars

\* C19: after the 3 ticks of SUB r1,r2 on r1 = x, r2 = y, r1 = (x - y) mod 256,
\* carry = (x >= y), zero = (x = y), sign = bit 7 of the result; after the 3
\* ticks of DEC r on r = x, r = (x - 1) mod 256 and carry = (x # 0).
C19_SubCarry ==
    (ticks = 3) =>
        LET ins == decode_opcode(label_st.opcode)
            x == label_st.x
            y == label_st.y
        IN  /\ fault = ""
            /\ (ins.op = "Sub") =>
                  /\ cpu.gpr[ins.y] = (x + 256 - y) % 256
                  /\ cpu.flags.carry = (x >= y)
                  /\ cpu.flags.zero = (x = y)
                  /\ cpu.flags.sign = (((x + 256 - y) % 256) >= 128)
            /\ (ins.op = "Dec") =>
                  /\ cpu.gpr[ins.x] = (x + 255) % 256
                  /\ cpu.flags.carry = (x # 0)

\* SUB a,b on a = 1, b = 2 after 3 ticks: a = 0xFF, a borrow (no carry), sign
C19_Witness ==
    /\ ticks = 3
    /\ label_st.opcode = 168
    /\ label_st.x = 1 /\ label_st.y = 2
    /\ cpu.gpr.a = BYTE_MAX
    /\ ~cpu.flags.carry /\ ~cpu.flags.zero /\ cpu.flags.sign

\* a shift case: SHL a (128) and SHR a (132) on every x, the shifts of b, c,
\* d on boundary values, every state of the five flags
ShiftCases ==
    [opcode : {128, 132}, x : 0..BYTE_MAX, overflow : BOOLEAN, zero : BOOLEAN,
     carry : BOOLEAN, logical_carry : BOOLEAN, sign : BOOLEAN]
    \cup [opcode : {129, 130, 131, 133, 134, 135}, x : ByteSamples,
          overflow : BOOLEAN, zero : BOOLEAN, carry : BOOLEAN,
          logical_carry : BOOLEAN, sign : BOOLEAN]

shift_state(case) ==
    LET ins == decode_opcode(case.opcode)
    IN  [a |-> IF ins.x = "a" THEN case.x ELSE 0,
         b |-> IF ins.x = "b" THEN case.x ELSE 0,
         c |-> IF ins.x = "c" THEN case.x ELSE 0,
         d |-> IF ins.x = "d" THEN case.x ELSE 0,
         overflow |-> case.overflow, zero |-> case.zero, carry |-> case.carry,
         logical_carry |-> case.logical_carry, sign |-> case.sign]

InitShift ==
    /\ \E case \in ShiftCases :
          /\ label_st = case
          /\ mem = init_region(Memory_new, << case.opcode >>, 0)
          /\ cpu = test_code(shift_state(case))
    /\ InitHarness

SpecShift == InitShift /\ [][RunSub]_vars

\* C20: through the ticks of a SHL or SHR the carry, zero, sign and overflow
\* flags keep the values they had before the instruction, for every operand
\* value and prior flag state.
C20_ShiftFrame ==
    \A f \in {"carry", "zero", "sign", "overflow"} : cpu.flags[f] = label_st[f]


\* C40: after the 3 ticks of SHL r on r = x, r = (2 * x) mod 256 and
\* logical_carry = bit 7 of x; after those of SHR r, r = floor(x / 2) and
\* logical_carry = bit 0 of x; whatever the flags before.
C40_ShiftResult ==
    (ticks = 3) =>
        LET ins == decode_opcode(label_st.opcode)
            x == label_st.x
        IN  /\ fault = ""
            /\ (ins.op = "Shl") =>
                  /\ cpu.gpr[ins.x] = (2 * x) % 256
                  /\ cpu.flags.logical_carry = (x >= 128)
            /\ (ins.op = "Shr") =>
                  /\ cpu.gpr[ins.x] = x \div 2
                  /\ cpu.flags.logical_carry = (x % 2 = 1)

\* C40 (amended): the shifts take the logical_carry of before the instruction
\* in at the vacated bit.  After the 3 ticks of SHL r on r = x with
\* logical_carry = l, r = (2 * x + l) mod 256 and logical_carry = bit 7 of x;
\* after those of SHR r, r = floor(x / 2) + 128 * l and logical_carry = bit 0
\* of x.
C40_ShiftThroughCarry ==
    (ticks = 3) =>
        LET ins == decode_opcode(label_st.opcode)
            x == label_st.x
            l == IF label_st.logical_carry THEN 1 ELSE 0
        IN  /\ fault = ""
            /\ (ins.op = "Shl") =>
                  /\ cpu.gpr[ins.x] = (2 * x + l) % 256
                  /\ cpu.flags.logical_carry = (x >= 128)
            /\ (ins.op = "Shr") =>
                  /\ cpu.gpr[ins.x] = (x \div 2) + 128 * l
                  /\ cpu.flags.logical_carry = (x % 2 = 1)

\* SHL a on a = 1 with logical_carry set has left a = 3
C40_Witness ==
    /\ ticks = 3
    /\ label_st.opcode = 128
    /\ label_st.x = 1
    /\ label_st.logical_carry
    /\ cpu.gpr["a"] = 3
    /\ ~cpu.flags.logical_carry
-----------------------------------------------------------------------------
(* Every opcode byte through the pipeline: the byte at address 0 is fetched *)
(* in the first tick, is in stage 1 in the second and in stage 2 in the     *)
(* third.                                                                   *)

\* one opcode byte, followed by NOPs, from two register states
DecodeCases == [opcode : 0..BYTE_MAX, a : {0, BYTE_MAX}, sp : {0, 16}]

InitDecode ==
    /\ \E case \in DecodeCases :
          /\ label_st = case
          /\ mem = init_region(Memory_new, << case.opcode >>, 0)
          /\ cpu = test_code([a |-> case.a, sp |-> case.sp, si |-> 16, di |-> 32])
    /\ InitHarness

SpecDecode == InitDecode /\ [][RunSub]_vars

\* C21: for every opcode byte, no tick in which its instruction is in stage 1
\* or stage 2 ends in a panic or an unreachable assertion.
C21_DecodeTotal == fault = ""

-----------------------------------------------------------------------------
(* f64: the accumulators of System are f64.  A value here is a non-negative *)
(* multiple of 2^-60 below 2^40, written as five limbs of 20 bits, least    *)
(* significant first (three limbs of fraction, two of integer); every f64   *)
(* the scheduler computes at a clock rate from 1 MHz to 29 MHz is one of    *)
(* them (the smallest, AUDIO_CLOCK_RATE / clock_rate, is above 2^-7, so its *)
(* 53 bits end above 2^-60).  An operation is the exact result rounded to   *)
(* 53 significant bits, ties to even, as IEEE 754 does.  1048576 is 2^20.   *)

\* the limbs of f as a tuple
limbs(f) == << f[1], f[2], f[3], f[4], f[5] >>

fx_zero == << 0, 0, 0, 0, 0 >>

\* n as f64
fx_int(n) == << 0, 0, 0, n % 1048576, n \div 1048576 >>

\* x as u32, x as u64: the integer part
fx_floor(x) == x[4] + 1048576 * x[5]

\* the exact sum a + b + carry, limb by limb
fx_add_carry(a, b, carry) ==
    LET s1 == a[1] + b[1] + carry
        s2 == a[2] + b[2] + (s1 \div 1048576)
        s3 == a[3] + b[3] + (s2 \div 1048576)
        s4 == a[4] + b[4] + (s3 \div 1048576)
        s5 == a[5] + b[5] + (s4 \div 1048576)
    IN  << s1 % 1048576, s2 % 1048576, s3 % 1048576, s4 % 1048576, s5 % 1048576 >>

\* the exact sum
fx_add(a, b) == fx_add_carry(a, b, 0)

\* the exact difference a - b, for a >= b, limb by limb
fx_sub(a, b) ==
    LET d1 == a[1] - b[1]
        d2 == a[2] - b[2] - (IF d1 < 0 THEN 1 ELSE 0)
        d3 == a[3] - b[3] - (IF d2 < 0 THEN 1 ELSE 0)
        d4 == a[4] - b[4] - (IF d3 < 0 THEN 1 ELSE 0)
        d5 == a[5] - b[5] - (IF d4 < 0 THEN 1 ELSE 0)
    IN  << d1 % 1048576, d2 % 1048576, d3 % 1048576, d4 % 1048576, d5 % 1048576 >>

\* a >= b
fx_ge(a, b) ==
    IF a[5] # b[5] THEN a[5] > b[5]
    ELSE IF a[4] # b[4] THEN a[4] > b[4]
    ELSE IF a[3] # b[3] THEN a[3] > b[3]
    ELSE IF a[2] # b[2] THEN a[2] > b[2]
    ELSE a[1] >= b[1]

\* bit k of x, k counted from the least significant bit of the first limb
bit_at(x, k) == (x[(k \div 20) + 1] \div (2 ^ (k % 20))) % 2

\* the number with bit k only
power_at(k) == limbs([i \in 1..5 |->
                         IF i = (k \div 20) + 1 THEN 2 ^ (k % 20) ELSE 0])

\* the index of the most significant bit of the limb value v > 0, from bit
\* k down
RECURSIVE limb_top_bit(_, _)
limb_top_bit(v, k) == IF v >= 2 ^ k THEN k ELSE limb_top_bit(v, k - 1)

\* the index of the most significant bit that is set, -1 for zero
top_bit(x) ==
    LET top == IF x[5] # 0 THEN 5 ELSE IF x[4] # 0 THEN 4 ELSE IF x[3] # 0 THEN 3
               ELSE IF x[2] # 0 THEN 2 ELSE IF x[1] # 0 THEN 1 ELSE 0
    IN  IF top = 0 THEN -1
        ELSE (top - 1) * 20 + limb_top_bit(x[top], 19)

\* x with the bits below bit k cleared
truncate_below(x, k) ==
    limbs([i \in 1..5 |->
              LET lowest == (i - 1) * 20
              IN  IF k >= lowest + 20 THEN 0
                  ELSE IF k <= lowest THEN x[i]
                  ELSE (x[i] \div (2 ^ (k - lowest))) * (2 ^ (k - lowest))])

\* the exact value x, with something below its last bit when sticky, rounded
\* to 53 significant bits (f64::MANTISSA_DIGITS), ties to even
f64_round(x, sticky) ==
    LET round_at(cut) ==
            IF cut <= 0 THEN x
            ELSE IF (bit_at(x, cut - 1) = 1)
                    /\ \/ truncate_below(x, cut - 1) # x
                       \/ sticky
                       \/ bit_at(x, cut) = 1
            THEN fx_add(truncate_below(x, cut), power_at(cut))
            ELSE truncate_below(x, cut)
    IN  round_at(top_bit(x) - 52)

\* a + b and a - b of f64
f64_add(a, b) == f64_round(fx_add(a, b), FALSE)
f64_sub(a, b) == f64_round(fx_sub(a, b), FALSE)

DIV_CHUNK == 16

\* one bit of the long division of n * 2^60 by d: st.q is the quotient so
\* far, st.r the remainder so far, k the bit of the dividend taken in
div_step(n, d, k, st) ==
    LET compared(shifted) ==
            IF fx_ge(shifted, d)
            THEN [q |-> fx_add_carry(st.q, st.q, 1), r |-> fx_sub(shifted, d)]
            ELSE [q |-> fx_add_carry(st.q, st.q, 0), r |-> shifted]
    IN  compared(fx_add_carry(st.r, st.r,
                              IF k >= 60 THEN bit_at(n, k - 60) ELSE 0))

\* count bits of the division from bit k down
RECURSIVE div_bits(_, _, _, _, _)
div_bits(n, d, k, count, st) ==
    IF (count = 0) \/ (k < 0) THEN st
    ELSE LET rest(next) ==
                 IF next.r[1] >= 0 THEN div_bits(n, d, k - 1, count - 1, next) ELSE st
         IN  rest(div_step(n, d, k, st))

\* the division from bit k down, DIV_CHUNK bits at a time
RECURSIVE f64_div_from(_, _, _, _)
f64_div_from(n, d, k, st) ==
    IF k < 0 THEN st
    ELSE LET rest(next) ==
                 IF next.r[1] >= 0 THEN f64_div_from(n, d, k - DIV_CHUNK, next) ELSE st
         IN  rest(div_bits(n, d, k, DIV_CHUNK, st))

\* n / d of f64, for an integer n and a value d: the exact quotient rounded
f64_div(n, d) ==
    LET rounded(st) == f64_round(st.q, st.r # fx_zero)
    IN  rounded(f64_div_from(fx_int(n), d, 159, [q |-> fx_zero, r |-> fx_zero]))

-----------------------------------------------------------------------------
(* lib.rs: struct System, the scheduler around Cpu::clock.  The rates and   *)
(* the accumulators of System are f64 values; clock_rate and the rate       *)
(* constants are whole numbers and are kept as integers.  The sample        *)
(* values, the pixel buffer and the game pad are outside the model; calls   *)
(* of them are counted.  The terminal is the bytes it was given since its   *)
(* last reset.                                                              *)

INITIAL_CLOCK_RATE == 4000000
UART_BAUD_RATE == 115200
AUDIO_CLOCK_RATE == 230400   \* 1_843_200.0 / 8.0
SAMPLE_RATE == 44100
VGA_CLOCK_RATE == 25175000

\* 59.94047619047765, the f64 of the literal
FRAME_RATE == << 688128, 798916, 986160, 59, 0 >>

AUDIO_CYCLES_PER_SAMPLE == f64_div(AUDIO_CLOCK_RATE, fx_int(SAMPLE_RATE))

\* 1.0
ONE == fx_int(1)

\* Vga::reset
vga_reset(v) ==
    [v EXCEPT !.h_counter = 0, !.v_counter = 0, !.h_pixel = 0, !.v_pixel = 0,
              !.h_offset = 0, !.v_offset = 0, !.update_vscroll = FALSE]

\* the image of the monitor that System::reset copies to CPU_RESET_PC: 8 KiB
\* that begin with the code that prints the prompt '>'
\* (mov a,#'>'; out uartData,a)
MONITOR_BYTES ==
    [i \in 1..8192 |-> IF i = 1 THEN 1 ELSE IF i = 2 THEN 62
                       ELSE IF i = 3 THEN 57 ELSE 0]

\* Vga::clock, one pass of its loop: the counters, then the three reads of a
\* visible pixel
vga_clock_step(v, m) ==
    LET H_PIXELS == 800
        V_PIXELS == 525
        BASE_H_OFFSET == 47
        BASE_V_OFFSET == 33
        tile_x(v1) == v1.h_pixel % 8
        tile_y(v1) == v1.v_pixel % 8
        colored(v1, color) ==
            [vga |-> v1, mem |-> color.mem, pixel |-> Some(color.value)]
        \* palette_index is the high or the low nibble
        nibbled(v1, nibble) ==
            colored(v1, palette_read(nibble.mem,
                                     IF tile_x(v1) % 2 = 1 THEN nibble.value \div 16
                                     ELSE nibble.value % 16))
        \* tile_addr
        tiled(v1, tile) ==
            nibbled(v1, tile_data_read(tile.mem,
                                       tile.value * 32 + tile_y(v1) * 4
                                       + (tile_x(v1) \div 2)))
        \* h_addr + v_addr * 128
        counted(v1) ==
            IF (v1.h_counter < SCREEN_WIDTH) /\ (v1.v_counter < SCREEN_HEIGHT)
            THEN tiled(v1, framebuffer_read(m, ((v1.h_pixel \div 8) % 128)
                                               + ((v1.v_pixel \div 8) % 64) * 128))
            ELSE [vga |-> v1, mem |-> m, pixel |-> None]
        next_line(line) ==
            IF line.v_counter = V_PIXELS
            THEN [line EXCEPT !.v_counter = 0,
                              !.v_pixel = Word(v.v_offset + BASE_V_OFFSET),
                              !.update_vscroll = FALSE]
            ELSE line
    IN  counted(IF v.h_counter + 1 # H_PIXELS
                THEN [v EXCEPT !.h_counter = v.h_counter + 1,
                               !.h_pixel = Word(v.h_pixel + 1)]
                ELSE next_line([v EXCEPT !.h_counter = 0,
                                         !.h_pixel = Word(v.h_offset + BASE_H_OFFSET),
                                         !.v_counter = v.v_counter + 1,
                                         !.v_pixel = IF v.update_vscroll THEN v.v_offset
                                                     ELSE Word(v.v_pixel + 1)]))

\* Vga::clock(mem, n); pixels counts the calls of set_pixel_at
RECURSIVE vga_clock(_, _, _, _)
vga_clock(v, m, n, pixels) ==
    IF n = 0 THEN [vga |-> v, mem |-> m, pixels |-> pixels]
    ELSE LET stepped(r) ==
                 IF r.pixel = None THEN vga_clock(r.vga, r.mem, n - 1, pixels)
                 ELSE vga_clock(r.vga, r.mem, n - 1, pixels + 1)
         IN  stepped(vga_clock_step(v, m))

\* the conflict flags of Memory that are set
conflicts(m) ==
    {a \in Apertures :
        CASE a = "framebuffer" -> m.framebuffer_conflict
          [] a = "palette" -> m.palette_conflict
          [] a = "tile_data" -> m.tile_data_conflict}

\* System::recalculate_cycles
recalculate_cycles(y) ==
    LET with_frame(cycles_per_frame) ==
            [y EXCEPT
               !.cycles_per_frame = cycles_per_frame,
               !.whole_cycles_per_frame = fx_floor(cycles_per_frame),
               !.fract_cycles_per_frame = f64_sub(cycles_per_frame,
                                                  fx_int(fx_floor(cycles_per_frame))),
               !.cycles_per_baud = f64_div(y.clock_rate, fx_int(UART_BAUD_RATE)),
               !.audio_cycles_per_cpu_cylce = f64_div(AUDIO_CLOCK_RATE, fx_int(y.clock_rate)),
               !.vga_cycles_per_cpu_cycle = f64_div(VGA_CLOCK_RATE, fx_int(y.clock_rate))]
    IN  with_frame(f64_div(y.clock_rate, FRAME_RATE))

\* System::create: the scheduler fields, then recalculate_cycles
System_create ==
    recalculate_cycles(
    [call |-> "", requested |-> 0, n |-> 0, break_point |-> FALSE, loader_finished |-> FALSE,
     result |-> None, calls |-> 0,
     clock_rate |-> INITIAL_CLOCK_RATE,
     cycles_per_frame |-> fx_zero, whole_cycles_per_frame |-> 0,
     fract_cycles_per_frame |-> fx_zero, cycles_per_baud |-> fx_zero,
     audio_cycles_per_cpu_cylce |-> fx_zero, vga_cycles_per_cpu_cycle |-> fx_zero,
     fractional_cycles |-> fx_zero,
     baud_cycles |-> fx_zero, fractional_audio_cycles |-> fx_zero,
     audio_cycles |-> fx_zero, vga_cycles |-> fx_zero,
     input_queue |-> << >>, output_queue |-> << >>, terminal |-> << >>,
     \* what the calls have done so far
     cpu_ticks |-> 0, call_ticks |-> 0, resets |-> 0, audio_clocks |-> 0,
     samples |-> 0, vga_clocks |-> 0, pixels |-> 0,
     \* the last tick: the steps it completed, whether the VGA read an
     \* aperture whose conflict flag was already set when the tick began
     steps |-> << >>, stale_read |-> FALSE,
     \* whether a BREAK was in stage 2 in a tick of the running call
     broke |-> FALSE])

\* the while loop over baud_cycles of System::clock
RECURSIVE clock_baud(_, _)
clock_baud(y, u) ==
    IF ~fx_ge(y.baud_cycles, y.cycles_per_baud) \/ (u.fault # "")
    THEN [sys |-> y, uart |-> u.uart, fault |-> u.fault]
    ELSE LET written(hr, y1) ==
                 IF y.input_queue = << >>
                 THEN clock_baud(y1, [uart |-> hr.uart, fault |-> hr.fault])
                 ELSE IF hr.fault # ""
                 THEN [sys |-> y1, uart |-> hr.uart, fault |-> hr.fault]
                 ELSE clock_baud([y1 EXCEPT !.input_queue = Tail(@)],
                                 host_write(hr.uart, Head(y.input_queue)))
             received(hr) ==
                 written(hr, [y EXCEPT !.baud_cycles = f64_sub(@, y.cycles_per_baud),
                                       !.output_queue = IF hr.item = None THEN @
                                                        ELSE Append(@, hr.item[1])])
         IN  received(host_read(u.uart))

\* the while loop over baud_cycles of System::execute_program
RECURSIVE execute_baud(_, _)
execute_baud(y, u) ==
    IF ~fx_ge(y.baud_cycles, y.cycles_per_baud) \/ (u.fault # "")
    THEN [sys |-> y, uart |-> u.uart, fault |-> u.fault]
    ELSE LET received(hr) ==
                 execute_baud(
                     [y EXCEPT !.baud_cycles = f64_sub(@, y.cycles_per_baud),
                               !.output_queue = IF hr.item = None THEN @
                                                ELSE Append(@, hr.item[1]),
                               !.loader_finished = @ \/ (hr.item = Some(62))],
                     [uart |-> hr.uart, fault |-> hr.fault])
         IN  received(host_read(u.uart))

\* the while loop over audio_cycles of System::clock: a sample is pushed
\* for every AUDIO_CYCLES_PER_SAMPLE in audio_cycles
RECURSIVE push_samples(_)
push_samples(y) ==
    IF ~fx_ge(y.audio_cycles, AUDIO_CYCLES_PER_SAMPLE) THEN y
    ELSE push_samples([y EXCEPT !.audio_cycles = f64_sub(@, AUDIO_CYCLES_PER_SAMPLE),
                                !.samples = @ + 1])

\* the for loop over whole_audio_cycles of System::clock: Audio::clock, then
\* audio_cycles += 1.0 and the samples
RECURSIVE clock_audio(_, _)
clock_audio(y, whole_audio_cycles) ==
    IF whole_audio_cycles = 0 THEN y
    ELSE clock_audio(push_samples([y EXCEPT !.audio_cycles = f64_add(@, ONE),
                                            !.audio_clocks = @ + 1]),
                     whole_audio_cycles - 1)

\* the part of the loop body of System::clock after Cpu::clock; s holds the
\* objects as Cpu::clock left them, before the conflict flags at the start of
\* the tick
clock_devices(s, y, before) ==
    LET \* the conflict reset and the fields of the tick; vga_cycles is the sum
        \* before its whole part is taken off
        drawn_part(bauded, y2, vga_cycles, drawn) ==
            [s EXCEPT
                !.uart = bauded.uart,
                !.vga = drawn.vga,
                !.mem = reset_vga_conflict(drawn.mem),
                !.sys = [y2 EXCEPT
                           !.vga_cycles = f64_sub(vga_cycles, fx_int(fx_floor(vga_cycles))),
                           !.vga_clocks = @ + fx_floor(vga_cycles),
                           !.pixels = @ + drawn.pixels,
                           !.resets = @ + 1,
                           !.steps = << "cpu", "uart", "audio", "vga", "reset" >>,
                           !.stale_read = (drawn.pixels > 0) /\ (before # {}),
                           !.break_point = s.tick.break_point]]
        \* Vga::clock(whole_vga_cycles)
        vga_part(bauded, y2, vga_cycles) ==
            drawn_part(bauded, y2, vga_cycles,
                       vga_clock(s.vga, s.mem, fx_floor(vga_cycles), 0))
        \* vga_cycles += vga_cycles_per_cpu_cycle
        audio_done(bauded, y2) ==
            vga_part(bauded, y2, f64_add(y2.vga_cycles, y2.vga_cycles_per_cpu_cycle))
        \* the whole part of fractional_audio_cycles is taken off and clocked
        audio_part(bauded, y1, fractional) ==
            audio_done(bauded,
                       clock_audio([y1 EXCEPT !.fractional_audio_cycles =
                                                 f64_sub(fractional,
                                                         fx_int(fx_floor(fractional)))],
                                   fx_floor(fractional)))
        \* fractional_audio_cycles += audio_cycles_per_cpu_cylce
        baud_done(bauded) ==
            IF bauded.fault # ""
            THEN [s EXCEPT !.uart = bauded.uart, !.fault = bauded.fault,
                           !.sys = bauded.sys]
            ELSE audio_part(bauded, bauded.sys,
                            f64_add(bauded.sys.fractional_audio_cycles,
                                    bauded.sys.audio_cycles_per_cpu_cylce))
    IN  baud_done(clock_baud([y EXCEPT !.baud_cycles = f64_add(@, ONE)],
                             [uart |-> s.uart, fault |-> ""]))

\* a variant that leaves the loop as soon as Cpu::clock reports the break
clock_ticked_break_first(s, r) ==
    LET y == [s.sys EXCEPT !.cpu_ticks = @ + 1, !.call_ticks = @ + 1, !.n = @ - 1,
                           !.steps = << "cpu" >>, !.stale_read = FALSE,
                           !.broke = @ \/ (r.cpu.stage2_instruction.op = "Break"),
                           !.break_point = r.tick.break_point]
        after == [cpu |-> r.cpu, mem |-> r.mem, vga |-> r.vga, uart |-> r.uart,
                  audio |-> r.audio, fault |-> r.fault, tick |-> r.tick, sys |-> y]
    IN  IF (r.fault # "") \/ r.tick.break_point THEN after
        ELSE clock_devices(after, y, conflicts(s.mem))

\* the loop body of System::clock after Cpu::clock has returned r
clock_ticked(s, r) ==
    LET y == [s.sys EXCEPT !.cpu_ticks = @ + 1, !.call_ticks = @ + 1, !.n = @ - 1,
                           !.steps = << "cpu" >>, !.stale_read = FALSE,
                           !.broke = @ \/ (r.cpu.stage2_instruction.op = "Break")]
        after == [cpu |-> r.cpu, mem |-> r.mem, vga |-> r.vga, uart |-> r.uart,
                  audio |-> r.audio, fault |-> r.fault, tick |-> r.tick, sys |-> y]
    IN  IF r.fault # "" THEN after
        ELSE clock_devices(after, y, conflicts(s.mem))

\* one pass of the for loop of System::clock
clock_tick(s) ==
    clock_ticked(s, clock([cpu |-> s.cpu, mem |-> s.mem, vga |-> s.vga, uart |-> s.uart,
                           audio |-> s.audio]))

\* the loop body of System::execute_program after Cpu::clock has returned r
execute_ticked(s, r) ==
    LET y == [s.sys EXCEPT !.cpu_ticks = @ + 1, !.call_ticks = @ + 1,
                           !.steps = << "cpu" >>, !.stale_read = FALSE]
        bauded_part(bauded) ==
            [cpu |-> r.cpu, mem |-> r.mem, vga |-> r.vga, uart |-> bauded.uart,
             audio |-> r.audio, fault |-> bauded.fault, tick |-> r.tick,
             sys |-> bauded.sys]
    IN  IF r.fault # ""
        THEN [cpu |-> r.cpu, mem |-> r.mem, vga |-> r.vga, uart |-> r.uart,
              audio |-> r.audio, fault |-> r.fault, tick |-> r.tick, sys |-> y]
        ELSE bauded_part(execute_baud([y EXCEPT !.baud_cycles = f64_add(@, ONE),
                                                !.steps = << "cpu", "uart" >>],
                                      [uart |-> r.uart, fault |-> ""]))

\* one pass of the loop of System::execute_program
execute_tick(s) ==
    execute_ticked(s, clock([cpu |-> s.cpu, mem |-> s.mem, vga |-> s.vga,
                             uart |-> s.uart, audio |-> s.audio]))

\* process_terminal: the output queue is drained into the terminal parser
process_terminal(y) ==
    [y EXCEPT !.terminal = @ \o y.output_queue, !.output_queue = << >>]

\* the six host_write calls that end execute_program ("jmp 0\r")
RECURSIVE host_write_all(_, _)
host_write_all(u, bytes) ==
    IF (bytes = << >>) \/ (u.fault # "") THEN u
    ELSE host_write_all(host_write(u.uart, Head(bytes)), Tail(bytes))

\* System::reset
system_reset(s) ==
    [s EXCEPT !.mem = init_region(s.mem, MONITOR_BYTES, CPU_RESET_PC),
              !.cpu = reset(s.cpu),
              !.vga = vga_reset(s.vga),
              !.sys = [process_terminal(
                           recalculate_cycles([s.sys EXCEPT
                                                 !.clock_rate = INITIAL_CLOCK_RATE]))
                       EXCEPT !.terminal = << >>]]

\* System::set_clock_rate
set_clock_rate(y, clock_rate) ==
    recalculate_cycles([y EXCEPT !.clock_rate = clock_rate])

\* System::clock(n) up to its for loop
clock_begin(y, n) ==
    [y EXCEPT !.call = "clock", !.requested = n, !.n = n,
              !.break_point = FALSE, !.result = None,
              !.calls = @ + 1, !.call_ticks = 0, !.broke = FALSE]

\* System::clock_frame up to the for loop of System::clock
clock_frame(y) ==
    LET added(fractional_cycles) ==
            clock_begin([y EXCEPT !.fractional_cycles =
                                     f64_sub(fractional_cycles,
                                             fx_int(fx_floor(fractional_cycles)))],
                        y.whole_cycles_per_frame + fx_floor(fractional_cycles))
    IN  added(f64_add(y.fractional_cycles, y.fract_cycles_per_frame))

\* the for loop of System::clock(k), in halves: up to k passes, the pass
\* that reports a break point (or panics) being the last
RECURSIVE clock_passes(_, _)
clock_passes(s, k) ==
    IF k = 0 THEN s
    ELSE IF k = 1 THEN clock_tick(s)
    ELSE LET rest(half) ==
                 IF half.tick.break_point \/ (half.fault # "") THEN half
                 ELSE clock_passes(half, k - (k \div 2))
         IN  rest(clock_passes(s, k \div 2))

MaxSysTicks == 14   \* calls of Cpu::clock by the drivers
MaxCalls == 3       \* calls of the public functions of System that change it
MaxClockN == 3      \* the n of System::clock(n)

\* the objects after System::create, reset, clock(k) over the empty memory,
\* load_program(program) and reset; the counts of the model start anew
started(program, k) ==
    LET created == [cpu |-> Cpu_new, mem |-> Memory_new, vga |-> vga_new,
                    uart |-> uart_new, audio |-> audio_new, sys |-> System_create,
                    fault |-> "", tick |-> NoTick]
        anew(loaded) ==
            [loaded EXCEPT !.sys = [System_create EXCEPT
                                      !.fractional_cycles = loaded.sys.fractional_cycles,
                                      !.baud_cycles = loaded.sys.baud_cycles,
                                      !.fractional_audio_cycles =
                                          loaded.sys.fractional_audio_cycles,
                                      !.audio_cycles = loaded.sys.audio_cycles,
                                      !.vga_cycles = loaded.sys.vga_cycles]]
        program_loaded(idle) ==
            anew(system_reset([idle EXCEPT !.mem = init_region(idle.mem, program, 0)]))
    IN  program_loaded(clock_passes([system_reset(created) EXCEPT !.sys.n = k], k))

\* programs for load_program: a store to the framebuffer followed by the
\* prompt '>' on the UART, and programs with a BREAK
SystemPrograms ==
    { << 6, 192, 41, 1, 62, 126, 57 >>,     \* mov th,#0xC0; mov di,tx; mov a,#'>'; stosb; out uartData,a
      << 1, 62, 57, 0, 63 >>,               \* mov a,#'>'; out uartData,a; nop; break
      << 63 >>,                             \* break
      << 0, 0, 63, 0, 63 >> }               \* nop; nop; break; nop; break

\* the passes of System::clock made before the program is loaded: a baud
\* period ends after pass 35, an audio cycle is due at pass 18, and at pass
\* 625 the sum of 625 times 0.0576 is 0.9999999999999958
IdlePasses == {0, 16, 24, 30, 624}

\* the rates System::set_clock_rate is called with
ClockRates == {2000000, 4000000, 8000000}

InitSystem ==
    /\ \E program \in SystemPrograms, k \in IdlePasses :
          \E s \in {started(program, k)} :
             /\ cpu = s.cpu
             /\ mem = s.mem
             /\ vga = s.vga
             /\ uart = s.uart
             /\ audio = s.audio
             /\ sys = s.sys
    /\ fault = ""
    /\ tick = NoTick
    /\ ticks = 0
    /\ vgaread = Idle
    /\ section_st = Idle
    /\ label_st = Idle
    /\ emit_st = Idle

sysOther == << vgaread, section_st, label_st, emit_st >>

\* System::write_char
WriteChar ==
    /\ fault = ""
    /\ sys.call = ""
    /\ sys.input_queue = << >>
    /\ sys' = [sys EXCEPT !.input_queue = Append(@, 13)]
    /\ UNCHANGED << cpu, mem, vga, uart, audio, fault, tick, ticks, sysOther >>

\* System::clock(n) up to its for loop
SystemClock ==
    \E n \in 0..MaxClockN :
        /\ fault = ""
        /\ sys.call = ""
        /\ sys.calls < MaxCalls
        /\ sys' = clock_begin(sys, n)
        /\ UNCHANGED << cpu, mem, vga, uart, audio, fault, tick, ticks, sysOther >>

\* System::clock_frame up to the for loop of System::clock
ClockFrame ==
    /\ fault = ""
    /\ sys.call = ""
    /\ sys.calls < MaxCalls
    /\ sys' = clock_frame(sys)
    /\ UNCHANGED << cpu, mem, vga, uart, audio, fault, tick, ticks, sysOther >>

\* System::set_clock_rate
SetClockRate ==
    \E clock_rate \in ClockRates :
        /\ fault = ""
        /\ sys.call = ""
        /\ sys.calls < MaxCalls
        /\ clock_rate # sys.clock_rate
        /\ sys' = [set_clock_rate(sys, clock_rate) EXCEPT !.calls = @ + 1]
        /\ UNCHANGED << cpu, mem, vga, uart, audio, fault, tick, ticks, sysOther >>

\* the objects a driver works on
system == [cpu |-> cpu, mem |-> mem, vga |-> vga, uart |-> uart, audio |-> audio,
           sys |-> sys]

\* System::reset
SystemReset ==
    /\ fault = ""
    /\ sys.call = ""
    /\ sys.calls < MaxCalls
    /\ \E s \in {system_reset(system)} :
          /\ cpu' = s.cpu
          /\ mem' = s.mem
          /\ vga' = s.vga
          /\ sys' = [s.sys EXCEPT !.calls = @ + 1]
    /\ UNCHANGED << uart, audio, fault, tick, ticks, sysOther >>

\* the driver's pass r over the loop body becomes the state
Ticked_by(r) ==
    /\ cpu' = r.cpu
    /\ mem' = r.mem
    /\ vga' = r.vga
    /\ uart' = r.uart
    /\ audio' = r.audio
    /\ fault' = r.fault
    /\ tick' = r.tick
    /\ sys' = r.sys
    /\ ticks' = ticks + 1
    /\ UNCHANGED sysOther

\* System::clock: one pass of the for loop
SystemClockTick ==
    /\ fault = ""
    /\ sys.call = "clock"
    /\ sys.n > 0
    /\ ~sys.break_point
    /\ ticks < MaxSysTicks
    /\ \E r \in {clock_tick(system)} : Ticked_by(r)

\* System::clock: after the loop
SystemClockReturn ==
    /\ fault = ""
    /\ sys.call = "clock"
    /\ (sys.n = 0) \/ sys.break_point
    /\ sys' = [process_terminal(sys) EXCEPT !.call = "",
                                            !.result = Some(sys.break_point)]
    /\ UNCHANGED << cpu, mem, vga, uart, audio, fault, tick, ticks, sysOther >>

\* System::execute_program up to its loop
ExecuteProgram ==
    /\ fault = ""
    /\ sys.call = ""
    /\ sys.calls < MaxCalls
    /\ sys' = [sys EXCEPT !.call = "execute_program", !.loader_finished = FALSE,
                          !.result = None, !.calls = @ + 1, !.call_ticks = 0]
    /\ UNCHANGED << cpu, mem, vga, uart, audio, fault, tick, ticks, sysOther >>

\* System::execute_program: one pass of the loop
ExecuteProgramTick ==
    /\ fault = ""
    /\ sys.call = "execute_program"
    /\ ~sys.loader_finished
    /\ ticks < MaxSysTicks
    /\ \E r \in {execute_tick(system)} : Ticked_by(r)

\* System::execute_program: after the loop
ExecuteProgramReturn ==
    /\ fault = ""
    /\ sys.call = "execute_program"
    /\ sys.loader_finished
    /\ \E u \in {host_write_all([uart |-> uart, fault |-> ""],
                                << 106, 109, 112, 32, 48, 13 >>)} :
          /\ uart' = u.uart
          /\ fault' = u.fault
    /\ sys' = [process_terminal(sys) EXCEPT !.call = ""]
    /\ UNCHANGED << cpu, mem, vga, audio, tick, ticks, sysOther >>

NextSystem ==
    \/ WriteChar
    \/ SystemClock
    \/ SystemClockTick
    \/ SystemClockReturn
    \/ ClockFrame
    \/ SetClockRate
    \/ SystemReset
    \/ ExecuteProgram
    \/ ExecuteProgramTick
    \/ ExecuteProgramReturn

SpecSystem == InitSystem /\ [][NextSystem]_vars

\* C22: no VGA read of a tick sees a conflict flag that was set when the tick
\* began, that is, by a CPU write of an earlier tick: every tick of every
\* driver ends with reset_vga_conflict.
C22_ConflictReset == ~sys.stale_read

\* a step that is one pass of the for loop of System::clock
ClockTicked == (sys.call = "clock") /\ (sys'.cpu_ticks = sys.cpu_ticks + 1) /\ (fault' = "")

\* a step that is the return of System::clock
ClockReturned == (sys.call = "clock") /\ (sys'.call = "")

\* C24: System::clock(n) returns true exactly when a BREAK was in stage 2 in
\* one of its ticks; the breaking tick still runs the UART, audio and VGA
\* steps and the conflict reset, no tick follows it in the call, and a call
\* without a break runs n ticks and returns false.
C24_BreakStop ==
    [][/\ ClockTicked =>
            /\ ~sys.break_point
            /\ sys'.break_point = (cpu'.stage2_instruction.op = "Break")
            /\ sys'.steps = << "cpu", "uart", "audio", "vga", "reset" >>
            /\ sys'.baud_cycles # sys.baud_cycles
            /\ ~fx_ge(sys'.baud_cycles, sys.cycles_per_baud)
            /\ sys'.fractional_audio_cycles # sys.fractional_audio_cycles
            /\ fx_floor(sys'.fractional_audio_cycles) = 0
            /\ fx_floor(sys'.vga_cycles) = 0
            /\ sys'.vga_clocks > sys.vga_clocks
            /\ sys'.resets = sys.resets + 1
            /\ conflicts(mem') = {}
       /\ ClockReturned =>
            /\ sys'.result = Some(sys.broke)
            /\ sys.broke => (sys.call_ticks >= 1) /\ (sys.call_ticks <= sys.requested)
                            /\ (cpu.stage2_instruction.op = "Break")
            /\ ~sys.broke => (sys.call_ticks = sys.requested)]_vars

\* System::clock(3) has returned true after two ticks: the BREAK of the second
\* tick is still in stage 2, and that tick drew its pixels and reset the
\* conflict flags
C24_Witness ==
    /\ sys.call = ""
    /\ sys.result = Some(TRUE)
    /\ sys.requested = 3
    /\ sys.call_ticks = 2
    /\ cpu.stage2_instruction.op = "Break"
    /\ sys.steps = << "cpu", "uart", "audio", "vga", "reset" >>
    /\ sys.pixels > 0
    /\ sys.resets = sys.call_ticks
    /\ conflicts(mem) = {}

-----------------------------------------------------------------------------
(* device.rs: the UART driven from both sides.  label_st records the last   *)
(* call with its result, and for each FIFO the bytes that have entered it   *)
(* and not yet left it, in the order they entered.                          *)

ReceiveBytes == {1, 2}      \* the bytes the host sends
TransmitBytes == {3}        \* the bytes the CPU sends

InitUart ==
    /\ uart = uart_new
    /\ label_st = [op |-> "", result |-> None,
                   rx |-> << >>, tx |-> << >>]
    /\ cpu = reset(Cpu_new)
    /\ mem = Memory_new
    /\ vga = vga_new
    /\ audio = audio_new
    /\ fault = ""
    /\ tick = NoTick
    /\ ticks = 0
    /\ vgaread = Idle
    /\ section_st = Idle
    /\ emit_st = Idle
    /\ sys = Idle

uartOther == << cpu, mem, vga, audio, tick, ticks, vgaread, section_st, emit_st, sys >>

\* Uart::read_ctrl
ReadCtrl ==
    /\ fault = ""
    /\ label_st' = [label_st EXCEPT !.op = "read_ctrl",
                                    !.result = Some(read_ctrl(uart))]
    /\ UNCHANGED << uart, fault, uartOther >>

\* Uart::read_data
ReadData ==
    /\ fault = ""
    /\ \E r \in {uart_read_data(uart)} :
          /\ uart' = r.uart
          /\ fault' = r.fault
          /\ label_st' = [label_st EXCEPT
                            !.op = "read_data",
                            !.result = Some(r.value),
                            !.rx = IF @ = << >> THEN @ ELSE Tail(@)]
    /\ UNCHANGED uartOther

\* Uart::write_data
WriteData ==
    \E value \in TransmitBytes :
        /\ fault = ""
        /\ \E r \in {uart_write_data(uart, value)} :
              /\ uart' = r.uart
              /\ fault' = r.fault
              /\ label_st' = [label_st EXCEPT
                                !.op = "write_data",
                                !.result = None,
                                !.tx = IF r.fault = "" THEN Append(@, value) ELSE @]
        /\ UNCHANGED uartOther

\* Uart::host_read
HostRead ==
    /\ fault = ""
    /\ \E r \in {host_read(uart)} :
          /\ uart' = r.uart
          /\ fault' = r.fault
          /\ label_st' = [label_st EXCEPT
                            !.op = "host_read",
                            !.result = r.item,
                            !.tx = IF @ = << >> THEN @ ELSE Tail(@)]
    /\ UNCHANGED uartOther

\* Uart::host_write
HostWrite ==
    \E value \in ReceiveBytes :
        /\ fault = ""
        /\ \E r \in {host_write(uart, value)} :
              /\ uart' = r.uart
              /\ fault' = r.fault
              /\ label_st' = [label_st EXCEPT
                                !.op = "host_write",
                                !.result = None,
                                !.rx = IF r.fault = "" THEN Append(@, value) ELSE @]
        /\ UNCHANGED uartOther

NextUart ==
    \/ ReadCtrl
    \/ ReadData
    \/ WriteData
    \/ HostRead
    \/ HostWrite

SpecUart == InitUart /\ [][NextUart]_vars

\* the bytes a Queue holds, from its start index on
queue_items(q) ==
    [k \in 1..q.len |-> q.items[(q.start + k - 1) % QUEUE_N]]

\* C23: as long as no overflow assertion has tripped, each FIFO holds 0 to 8
\* bytes, namely the bytes that entered it and have not left it, in the order
\* they entered; a dequeue hands out the oldest of them; read_data on an
\* empty RX gives 0 and changes nothing; read_ctrl gives
\* rx_len | (tx_len << 4) and changes nothing.
C23_UartFifo ==
    [][(fault' = "") =>
          /\ uart'.receive_fifo.len \in 0..8
          /\ uart'.transmit_fifo.len \in 0..8
          /\ queue_items(uart'.receive_fifo) = [k \in 1..Len(label_st'.rx) |-> Some(label_st'.rx[k])]
          /\ queue_items(uart'.transmit_fifo) = [k \in 1..Len(label_st'.tx) |-> Some(label_st'.tx[k])]
          /\ (label_st'.op = "read_data") =>
                IF label_st.rx = << >>
                THEN (label_st'.result = Some(0)) /\ (uart' = uart)
                ELSE label_st'.result = Some(Head(label_st.rx))
          /\ (label_st'.op = "host_read") =>
                IF label_st.tx = << >>
                THEN (label_st'.result = None) /\ (uart' = uart)
                ELSE label_st'.result = Some(Head(label_st.tx))
          /\ (label_st'.op = "read_ctrl") =>
                /\ label_st'.result = Some(Len(label_st.rx) + 16 * Len(label_st.tx))
                /\ uart' = uart]_vars

\* the RX ring has wrapped around: it is full again after a byte was read,
\* its oldest byte sits in slot 1, and read_ctrl has just reported 8 received
\* and 8 unsent bytes
C23_Witness ==
    /\ fault = ""
    /\ label_st.op = "read_ctrl"
    /\ label_st.result = Some(136)
    /\ uart.receive_fifo.start = 1
    /\ uart.receive_fifo.end = 1
    /\ label_st.rx = << 2, 1, 1, 1, 1, 1, 1, 2 >>

-----------------------------------------------------------------------------
(* lib.rs: System::load_program.  label_st records the last call.           *)

MaxLoads == 1       \* calls of load_program

\* the largest program load_program accepts
PROGRAM_LIMIT == 57344      \* 0xE000

\* System::load_program(data): the length check, then Memory::init_region at
\* address 0
load_program(m, data) ==
    IF ~(Len(data) <= PROGRAM_LIMIT)
    THEN [mem |-> m, fault |-> "assertion failed: data.len() <= 0xE000"]
    ELSE IF ~(0 + Len(data) <= WORD_MOD)
    THEN [mem |-> m, fault |-> INIT_REGION_PANIC]
    ELSE [mem |-> init_region(m, data, 0), fault |-> ""]

\* program images: short ones, and ones around the limit (a 2, zeros, a 1)
LoadImages ==
    {<< >>, << 1 >>, << 2 >>, << 1, 2 >>, << 2, 0, 1 >>}
    \cup {[i \in 1..len |-> IF i = 1 THEN 2 ELSE IF i = len THEN 1 ELSE 0] :
             len \in {PROGRAM_LIMIT - 1, PROGRAM_LIMIT, PROGRAM_LIMIT + 1}}

\* the base addresses a caller asks for
LoadBases == {0, 1, 256, PROGRAM_LIMIT - 1, PROGRAM_LIMIT}

\* memory before the call: empty, or with bytes in the program area and in
\* the ROM area
LoadMemories ==
    {Memory_new,
     init_region(Memory_new, << 7, 7, 7, 7 >>, 0),
     init_region(init_region(Memory_new, << 9, 9 >>, PROGRAM_LIMIT), << 7 >>, 257)}

InitLoad ==
    /\ mem \in LoadMemories
    /\ label_st = [n |-> 0, base |-> 0, len |-> 0]
    /\ cpu = Cpu_new
    /\ vga = vga_new
    /\ uart = uart_new
    /\ audio = audio_new
    /\ fault = ""
    /\ tick = NoTick
    /\ ticks = 0
    /\ vgaread = Idle
    /\ section_st = Idle
    /\ emit_st = Idle
    /\ sys = Idle

\* a caller's load_program(base, data).  load_program of lib.rs has no base
\* parameter: the base does not reach it.
LoadProgram ==
    \E base \in LoadBases, data \in LoadImages :
        /\ fault = ""
        /\ label_st.n < MaxLoads
        /\ \E r \in {load_program(mem, data)} :
              /\ mem' = r.mem
              /\ fault' = r.fault
        /\ label_st' = [n |-> label_st.n + 1, base |-> base, len |-> Len(data)]
        /\ section_st' = [phase |-> "loaded", data |-> data]
        /\ UNCHANGED << cpu, vga, uart, audio, tick, ticks, vgaread, emit_st, sys >>

NextLoad == LoadProgram

SpecLoad == InitLoad /\ [][NextLoad]_vars

\* the addresses that hold a byte other than 0 in one of two memories: all
\* the addresses at which the two can differ
written(m1, m2) == (DOMAIN m1.data) \cup (DOMAIN m2.data)

\* C25: load_program(base, bytes) copies the bytes to base.. when
\* base + len <= 0xE000 and otherwise fails leaving memory as it was; no call
\* changes a byte at 0xE000 or above.
C25_LoadProgram ==
    [][(label_st'.n = label_st.n + 1) =>
          LET base == label_st'.base
              data == section_st'.data
          IN  /\ IF base + Len(data) <= PROGRAM_LIMIT
                 THEN /\ fault' = ""
                      /\ \A i \in 1..Len(data) : Get(mem'.data, base + i - 1) = data[i]
                      /\ \A a \in written(mem, mem') :
                            (a < base \/ a >= base + Len(data))
                               => Get(mem'.data, a) = Get(mem.data, a)
                 ELSE (fault' # "") /\ (mem' = mem)
              /\ \A a \in written(mem, mem') :
                    (a >= PROGRAM_LIMIT) => Get(mem'.data, a) = Get(mem.data, a)]_vars
-----------------------------------------------------------------------------
(* types.rs: def_hardware_type!(Byte, u8) and def_hardware_type!(Word, u16). *)
(* A value is the number in its Wrapping<base_type>; m is 2^n of the type.   *)
(* form is "Self" for the value-by-value impl and "base_type" for the        *)
(* value-by-primitive impl, whose rhs goes through Wrapping(rhs).            *)

\* std::num::Wrapping<T>: +, - and * of the base type, wrapping at 2^n
Wrapping_add(m, lhs, rhs) == (lhs + rhs) % m
Wrapping_sub(m, lhs, rhs) == (lhs - rhs + m) % m
\* (the product is summed over the two bytes of rhs, every term below 2^31)
Wrapping_mul(m, lhs, rhs) ==
    (lhs * (rhs % 256) + ((lhs * (rhs \div 256)) % m) * 256) % m

\* Wrapping(rhs) of a base_type value
Wrapping(rhs) == rhs

\* impl Add / Add<base_type>: Self(self.0 + rhs.0), Self(self.0 + Wrapping(rhs))
add(m, form, self, rhs) ==
    IF form = "Self" THEN Wrapping_add(m, self, rhs)
    ELSE Wrapping_add(m, self, Wrapping(rhs))

\* impl AddAssign / AddAssign<base_type>: self.0 += ...
add_assign(m, form, self, rhs) ==
    IF form = "Self" THEN Wrapping_add(m, self, rhs)
    ELSE Wrapping_add(m, self, Wrapping(rhs))

\* impl Sub / Sub<base_type>: Self(self.0 + rhs.0), Self(self.0 + Wrapping(rhs))
sub(m, form, self, rhs) ==
    IF form = "Self" THEN Wrapping_add(m, self, rhs)
    ELSE Wrapping_add(m, self, Wrapping(rhs))

\* impl SubAssign / SubAssign<base_type>: self.0 -= ...
sub_assign(m, form, self, rhs) ==
    IF form = "Self" THEN Wrapping_sub(m, self, rhs)
    ELSE Wrapping_sub(m, self, Wrapping(rhs))

\* impl Mul / Mul<base_type>: Self(self.0 * rhs.0), Self(self.0 * Wrapping(rhs))
mul(m, form, self, rhs) ==
    IF form = "Self" THEN Wrapping_mul(m, self, rhs)
    ELSE Wrapping_mul(m, self, Wrapping(rhs))

\* impl MulAssign / MulAssign<base_type>: self.0 *= ...
mul_assign(m, form, self, rhs) ==
    IF form = "Self" THEN Wrapping_mul(m, self, rhs)
    ELSE Wrapping_mul(m, self, Wrapping(rhs))

\* a op b of the type, and a after a op= b
binary(op, m, form, a, b) ==
    CASE op = "add" -> add(m, form, a, b)
      [] op = "sub" -> sub(m, form, a, b)
      [] op = "mul" -> mul(m, form, a, b)

assign(op, m, form, a, b) ==
    CASE op = "add" -> add_assign(m, form, a, b)
      [] op = "sub" -> sub_assign(m, form, a, b)
      [] op = "mul" -> mul_assign(m, form, a, b)

\* the values tried: every Byte against the Bytes at the edges, and the Words
\* at the edges
TypeNames == {"Byte", "Word"}
TypeOps == {"add", "sub", "mul"}
TypeForms == {"Self", "base_type"}
ByteEdges == {0, 1, 2, 127, 128, BYTE_MAX}
WordEdges == {0, 1, 2, BYTE_MAX, BYTE_MAX + 1, 32767, 32768, WORD_MOD - 1}
type_mod(name) == IF name = "Byte" THEN BYTE_MAX + 1 ELSE WORD_MOD

TypeCases ==
    [type : {"Byte"}, op : TypeOps, form : TypeForms, a : 0..BYTE_MAX, b : ByteEdges]
    \cup [type : {"Word"}, op : TypeOps, form : TypeForms, a : WordEdges, b : WordEdges]

InitTypes ==
    /\ label_st \in TypeCases
    /\ section_st = [phase |-> "operands", value |-> None, assigned |-> None]
    /\ cpu = Cpu_new
    /\ mem = Memory_new
    /\ vga = vga_new
    /\ uart = uart_new
    /\ audio = audio_new
    /\ fault = ""
    /\ tick = NoTick
    /\ ticks = 0
    /\ vgaread = Idle
    /\ emit_st = Idle
    /\ sys = Idle

\* let mut x = a; let value = a op b; x op= b;
Operate ==
    /\ section_st.phase = "operands"
    /\ section_st' =
          [phase |-> "result",
           value |-> Some(binary(label_st.op, type_mod(label_st.type),
                                 label_st.form, label_st.a, label_st.b)),
           assigned |-> Some(assign(label_st.op, type_mod(label_st.type),
                                    label_st.form, label_st.a, label_st.b))]
    /\ UNCHANGED << cpu, mem, vga, uart, audio, fault, tick, ticks, vgaread,
                    label_st, emit_st, sys >>

NextTypes == Operate

SpecTypes == InitTypes /\ [][NextTypes]_vars

\* the exact integer result of a op b, modulo m (the product is reduced term
\* by term over the four bits groups of a, every term below 2^31)
RECURSIVE times_mod(_, _, _)
times_mod(a, b, m) ==
    IF a = 0 THEN 0
    ELSE ((a % 16) * b + 16 * times_mod(a \div 16, b, m)) % m

exact(op, a, b, m) ==
    CASE op = "add" -> (a + b) % m
      [] op = "sub" -> (a - b) % m
      [] op = "mul" -> times_mod(a, b, m)

\* C26: a + b, a - b and a * b of Byte and Word are the exact result modulo
\* 2^n in both operator forms, and equal what the compound assignment leaves.
C26_Wrapping ==
    (section_st.phase = "result") =>
        /\ section_st.value =
              Some(exact(label_st.op, label_st.a, label_st.b, type_mod(label_st.type)))
        /\ section_st.value = section_st.assigned
-----------------------------------------------------------------------------
(* Programs of labels, sections, instructions and includes for process_file *)

MaxPlaceLen == 4    \* statements of the entry file

PlaceStatements ==
    {SectionDirective("s1", None), SectionDirective("s2", None),
     LabelAddress("A"), LabelExpression("A", Literal(7)), LabelAddress("B"),
     InstructionStatement(Nop_inst), IncludeDirective("inc")}

\* what the file "inc" holds
PlaceIncluded ==
    {<< LabelAddress("A") >>,
     << SectionDirective("s2", None), LabelAddress("A") >>,
     << LabelAddress("B"), SectionDirective("s1", None), LabelAddress("A") >>}

has_include(p) == \E k \in 1..Len(p) : p[k].kind = "IncludeDirective"

PlacePrograms(max) == UNION {[1..n -> PlaceStatements] : n \in 0..max}

\* every program alone; a program with an .include also with each file "inc",
\* includes allowed or not
PlaceInputs(max) ==
    {Input(OneFile(p), TRUE, TRUE) : p \in PlacePrograms(max)}
    \cup {Input(TwoFiles(p, included), allow, TRUE) :
             p \in {q \in PlacePrograms(max) : has_include(q)},
             included \in PlaceIncluded, allow \in BOOLEAN}

InitPlace == InitAssembler(PlaceInputs(MaxPlaceLen))

SpecPlace == InitPlace /\ [][NextAssembler]_vars

\* the statements of the whole program: those of `file` from statement i on,
\* an .include replaced by the statements of the file it names when includes
\* are allowed and the file exists
RECURSIVE whole_program(_, _, _, _)
whole_program(files, file, i, allow_include) ==
    IF i > Len(files[file]) THEN << >>
    ELSE LET statement == files[file][i]
             rest == whole_program(files, file, i + 1, allow_include)
         IN  IF statement.kind = "IncludeDirective"
             THEN IF allow_include /\ (statement.name \in DOMAIN files)
                  THEN whole_program(files, statement.name, 1, allow_include) \o rest
                  ELSE rest
             ELSE << statement >> \o rest

program_statements ==
    whole_program(section_st.files, section_st.file, 1, section_st.allow_include)

\* how often the program defines the label `name`
definitions(name) ==
    Cardinality({k \in 1..Len(program_statements) :
                    /\ program_statements[k].kind = "Label"
                    /\ program_statements[k].name = name})

PlaceLabels == {"A", "B"}

reported(kind) == \E k \in 1..Len(section_st.errors) : section_st.errors[k].kind = kind

\* C27: a program that defines a label name more than once ends with a
\* DuplicateLabel diagnostic for that name and with Err, never with an image.
C27_Duplicate ==
    (section_st.phase = "done") =>
        \A name \in PlaceLabels :
            (definitions(name) >= 2) =>
                /\ emit_st.result.tag = "Err"
                /\ Diag("DuplicateLabel", name, "") \in Range(section_st.errors)

\* C27 as amended: a program that defines a label name more than once ends
\* with Err and never with an image; among its diagnostics is a DuplicateLabel
\* for that name, unless a statement outside any section has stopped the
\* processing of a file (an UndefinedSection diagnostic).
C27_DuplicateReached ==
    (section_st.phase = "done") =>
        \A name \in PlaceLabels :
            (definitions(name) >= 2) =>
                /\ emit_st.result.tag = "Err"
                /\ \/ Diag("DuplicateLabel", name, "") \in Range(section_st.errors)
                   \/ reported("UndefinedSection")

\* label A is defined in section s1 and again in section s2, and assemble has
\* returned Err with the DuplicateLabel diagnostic and no UndefinedSection
C27_Witness ==
    /\ section_st.phase = "done"
    /\ section_st.files[MAIN] = << SectionDirective("s1", None), LabelAddress("A"),
                                   SectionDirective("s2", None), LabelAddress("A") >>
    /\ emit_st.result.tag = "Err"
    /\ Diag("DuplicateLabel", "A", "") \in Range(section_st.errors)
    /\ ~reported("UndefinedSection")

\* the statements that have to be in a section
sectioned(statement) ==
    statement.kind \notin {"SectionDirective", "IncludeDirective", "OriginDirective"}

\* the program has a label or an instruction before any .section
outside_section ==
    \E k \in 1..Len(program_statements) :
        /\ sectioned(program_statements[k])
        /\ \A j \in 1..(k - 1) : program_statements[j].kind # "SectionDirective"

occurrences(kind) ==
    Cardinality({k \in 1..Len(section_st.errors) : section_st.errors[k].kind = kind})

\* C28: the first label or instruction before any .section is reported as
\* UndefinedSection and nothing after it is processed: it is the last
\* diagnostic and the only one of its kind, no statement is placed in a
\* section, and no later pass adds to that.
C28_Stop ==
    ((section_st.phase # "start") /\ outside_section) =>
        /\ occurrences("UndefinedSection") = 1
        /\ section_st.errors[Len(section_st.errors)].kind = "UndefinedSection"
        /\ section_st.sections = << >>
-----------------------------------------------------------------------------
(* Programs whose sections reach the top of the address space               *)

MaxLayoutLen == 2   \* statements of the first section of a program

WORD_MAX == 65535   \* u16::MAX

LayoutBases == {None, Some(0), Some(WORD_MAX - 1), Some(WORD_MAX)}

LayoutStatements ==
    {OffsetDirective(Some(1)), OffsetDirective(Some(WORD_MAX)), AlignDirective(Some(2)),
     InstructionStatement(Nop_inst), InstructionStatement(Break_inst)}

LayoutBodies(max) == UNION {[1..n -> LayoutStatements] : n \in 0..max}

\* one section, or one section and a second one of at most one statement;
\* the two are both low (and the first without a far .offset) or both high,
\* which keeps the image of a two-section program short
low_base(base) == base \in {None, Some(0)}

far_offset(body) == \E k \in 1..Len(body) : body[k] = OffsetDirective(Some(WORD_MAX))

LayoutPrograms(max) ==
    LET section(name, base, body) == << SectionDirective(name, base) >> \o body
    IN  {section("s1", base, body) : base \in LayoutBases, body \in LayoutBodies(max)}
        \cup {section("s1", b1, body1) \o section("s2", b2, body2) :
                  b1 \in {b \in LayoutBases : low_base(b)},
                  body1 \in {b \in LayoutBodies(max) : ~far_offset(b)},
                  b2 \in {b \in LayoutBases : low_base(b)},
                  body2 \in LayoutBodies(1)}
        \cup {section("s1", b1, body1) \o section("s2", b2, body2) :
                  b1 \in {b \in LayoutBases : ~low_base(b)},
                  body1 \in LayoutBodies(max),
                  b2 \in {b \in LayoutBases : ~low_base(b)},
                  body2 \in LayoutBodies(1)}

LayoutInputs(max) ==
    {Input(OneFile(p), FALSE, checks) : p \in LayoutPrograms(max), checks \in BOOLEAN}

InitLayout == InitAssembler(LayoutInputs(MaxLayoutLen))

SpecLayout == InitLayout /\ [][NextAssembler]_vars

\* the highest address the layout of the statements from i on reaches,
\* computed without a limit on the address: .offset sets it, .align rounds
\* it up, every statement adds its emit size
RECURSIVE layout_top(_, _, _, _)
layout_top(statements, i, address, top) ==
    IF i > Len(statements) THEN top
    ELSE LET statement == statements[i]
             at == CASE statement.kind = "OffsetDirective" -> statement.value[1]
                     [] statement.kind = "AlignDirective" ->
                            align_up(address, statement.value[1])
                     [] OTHER -> address
             next == at + Statement_emit_size(statement)
         IN  layout_top(statements, i + 1, next, IF next > top THEN next ELSE top)

\* the layout of a section passes 0xFFFF
too_large(section) ==
    section.base + layout_top(section.statements, 1, 0, 0) > WORD_MAX

\* C29: when assemble is over it has not aborted, and for every section whose
\* layout passes 0xFFFF (by emit sizes, an .offset, an .align round-up or
\* base + size) there is a SectionTooLarge diagnostic and the result is Err.
C29_TooLarge ==
    (section_st.phase \in {"done", "panicked"}) =>
        /\ fault = ""
        /\ \A k \in 1..Len(section_st.sections) :
              too_large(section_st.sections[k]) =>
                  /\ Diag("SectionTooLarge", section_st.sections[k].name, "")
                        \in Range(section_st.errors)
                  /\ emit_st.result.tag = "Err"
-----------------------------------------------------------------------------
(* eval.rs: Expression::try_eval on expressions over literals and labels    *)
(* with values.  section_st is the call: the expression, the build, the     *)
(* result.                                                                   *)

UnaryOps == {"Group", "Identity", "Negation", "BitwiseNot"}
ShiftOps == {"LeftShift", "ArithmeticRightShift", "LogicalRightShift"}
BinaryOps ==
    {"Addition", "Subtraction", "Multiplication", "Division", "Remainder",
     "BitwiseAnd", "BitwiseOr", "BitwiseXor"} \cup ShiftOps

\* the labels and their values: 64 and -63 as shift amounts are 0 and 1
\* modulo 64
EvalLabels == {"X", "Y"}
EvalValues == [n \in EvalLabels |-> IF n = "X" THEN Some(64) ELSE Some(-63)]

EvalLeaves ==
    {Literal(-5), Literal(0), Literal(1), Literal(3), Identifier("X"), Identifier("Y")}

leaf_value(e) == IF e.op = "Literal" THEN e.value[1] ELSE EvalValues[e.name][1]

\* the shifts whose result lies within the integers of the model: a shift
\* amount of at most 3 modulo 64, and for >>> a negative lhs only unshifted
in_range(op, lhs, rhs) ==
    (op \in ShiftOps) =>
        /\ leaf_value(rhs) % 64 <= 3
        /\ (op = "LogicalRightShift" /\ leaf_value(lhs) < 0) => (leaf_value(rhs) % 64 = 0)

EvalBinaries ==
    {Binary(op, lhs, rhs) : op \in BinaryOps, lhs \in EvalLeaves, rhs \in EvalLeaves}

\* a leaf, a unary or binary operator on leaves, and 1 + or - of those
EvalExpressions ==
    LET binaries == {e \in EvalBinaries : in_range(e.op, e.args[1], e.args[2])}
        flat == EvalLeaves \cup binaries
                  \cup {Unary(op, inner) : op \in UnaryOps, inner \in EvalLeaves}
    IN  flat \cup {Binary("Addition", Literal(1), e) : e \in binaries}
             \cup {Unary("Negation", e) : e \in binaries}

InitEval ==
    /\ \E e \in EvalExpressions, checks \in BOOLEAN :
          section_st = [phase |-> "expression", expression |-> e,
                        overflow_checks |-> checks, result |-> Ok(0)]
    /\ label_st = Idle
    /\ emit_st = Idle
    /\ cpu = Cpu_new
    /\ mem = Memory_new
    /\ vga = vga_new
    /\ uart = uart_new
    /\ audio = audio_new
    /\ fault = ""
    /\ tick = NoTick
    /\ ticks = 0
    /\ vgaread = Idle
    /\ sys = Idle

\* expression.try_eval(&label_set, &value_map)
TryEval ==
    /\ section_st.phase = "expression"
    /\ \E r \in {try_eval(section_st.expression, EvalLabels, EvalValues)} :
          /\ section_st' = [section_st EXCEPT !.phase = "evaluated", !.result = r]
          /\ fault' = IF r.err = "panic" THEN r.what ELSE ""
    /\ UNCHANGED << cpu, mem, vga, uart, audio, tick, ticks, vgaread, label_st,
                    emit_st, sys >>

NextEval == TryEval

SpecEval == InitEval /\ [][NextEval]_vars

\* the expression divides by an operand that is zero
RECURSIVE zero_divisor(_)
zero_divisor(e) ==
    \/ /\ e.op \in {"Division", "Remainder"}
       /\ try_eval(e.args[2], EvalLabels, EvalValues) = Ok(0)
    \/ \E k \in 1..Len(e.args) : zero_divisor(e.args[k])

\* C30: try_eval of an expression whose literals and labels have values
\* returns and does not abort, whatever the right operand of a shift; it
\* returns a value, or DivideByZero when a divisor is zero and only then.
C30_Total ==
    (section_st.phase = "evaluated") =>
        /\ fault = ""
        /\ section_st.result.err \in {"", "DivideByZero"}
        /\ (section_st.result.err = "DivideByZero") <=> zero_divisor(section_st.expression)
-----------------------------------------------------------------------------
(* Positional labels behind .offset and .align                              *)

MaxPrefix == 2      \* statements of a section ahead of its label

PositionalBases == {None, Some(1), Some(2), Some(3), Some(4), Some(8)}

PrefixStatements ==
    {InstructionStatement(Nop_inst), AlignDirective(Some(2)), AlignDirective(Some(4)),
     OffsetDirective(Some(3))}

Prefixes(max) == UNION {[1..n -> PrefixStatements] : n \in 0..max}

\* the section "code": a prefix, the label L and a BREAK; alone, or behind a
\* section "low" of one NOP at base 0
PositionalPrograms(max) ==
    LET code(base, prefix) ==
            << SectionDirective("code", base) >> \o prefix
               \o << LabelAddress("L"), InstructionStatement(Break_inst) >>
        lower == << SectionDirective("low", Some(0)), InstructionStatement(Nop_inst) >>
    IN  {code(base, prefix) : base \in PositionalBases, prefix \in Prefixes(max)}
        \cup {lower \o code(base, prefix) :
                 base \in PositionalBases \ {None}, prefix \in Prefixes(max)}

PositionalInputs(max) ==
    {Input(OneFile(p), FALSE, checks) : p \in PositionalPrograms(max), checks \in BOOLEAN}

InitPositional == InitAssembler(PositionalInputs(MaxPrefix))

SpecPositional == InitPositional /\ [][NextAssembler]_vars

\* the section "code" as process_sections left it
code_section ==
    section_st.sections[CHOOSE k \in 1..Len(section_st.sections) :
                            section_st.sections[k].name = "code"]

\* the statements of a section ahead of its first label
RECURSIVE before_label(_)
before_label(statements) ==
    IF (statements = << >>) \/ (Head(statements).kind = "Label") THEN << >>
    ELSE << Head(statements) >> \o before_label(Tail(statements))

\* current_address of the sizing loop of process_sections at the label
layout_address(section) ==
    size_statements([current_address |-> 0, size |-> 0, errors |-> << >>,
                     stop |-> FALSE, overflow |-> ""],
                    before_label(section.statements), 1, section.name).current_address

\* C31: when assemble has returned an image, the value of the positional
\* label L is the base of its section plus the layout address at the label,
\* and is the address (start address plus image offset) at which the
\* instruction after the label was written.
C31_LabelAddress ==
    ((section_st.phase = "done") /\ (emit_st.result.tag = "Ok")) =>
        /\ label_st.label_values["L"] =
              Some(code_section.base + layout_address(code_section))
        /\ label_st.label_values["L"] =
              Some(emit_st.start_address + emit_st.last.position)
-----------------------------------------------------------------------------
(* The opcodes of the assembler, decoded by the CPU                         *)

\* the accepted instructions that encode to one byte
OneByteInstructions ==
    {inst \in AcceptedInstructions :
        Len(Instruction_encode(inst, {}, EmptyMap, << >>).bytes) = 1}

InitOpcode ==
    /\ \E inst \in OneByteInstructions :
          section_st = [phase |-> "instruction", inst |-> inst, bytes |-> << >>,
                        decoded |-> Nop]
    /\ label_st = Idle
    /\ emit_st = Idle
    /\ cpu = Cpu_new
    /\ mem = Memory_new
    /\ vga = vga_new
    /\ uart = uart_new
    /\ audio = audio_new
    /\ fault = ""
    /\ tick = NoTick
    /\ ticks = 0
    /\ vgaread = Idle
    /\ sys = Idle

\* instruction.encode(&mut writer, &label_set, &value_map, &mut errors)
EncodeOpcode ==
    /\ section_st.phase = "instruction"
    /\ \E r \in {Instruction_encode(section_st.inst, {}, EmptyMap, << >>)} :
          /\ section_st' = [section_st EXCEPT !.phase = "encoded", !.bytes = r.bytes]
          /\ fault' = r.fault
    /\ UNCHANGED << cpu, mem, vga, uart, audio, tick, ticks, vgaread, label_st,
                    emit_st, sys >>

\* decode_opcode(Byte::new(opcode)) of the byte the assembler wrote
DecodeOpcode ==
    /\ section_st.phase = "encoded"
    /\ section_st' = [section_st EXCEPT !.phase = "decoded",
                                        !.decoded = decode_opcode(section_st.bytes[1])]
    /\ UNCHANGED << cpu, mem, vga, uart, audio, fault, tick, ticks, vgaread, label_st,
                    emit_st, sys >>

NextOpcode == EncodeOpcode \/ DecodeOpcode

SpecOpcode == InitOpcode /\ [][NextOpcode]_vars

WordRegisters == {"TX", "RA", "SP", "SI", "DI"}

\* the CPU's name of an operand of the assembler; the I/O registers the CPU
\* has under another name are taken by the port they stand for
cpu_operand(name) ==
    CASE name = "A" -> "a" [] name = "B" -> "b" [] name = "C" -> "c" [] name = "D" -> "d"
      [] name = "TL" -> "tl" [] name = "TH" -> "th" [] name = "TX" -> "tx"
      [] name = "RA" -> "ra" [] name = "SP" -> "sp" [] name = "SI" -> "si"
      [] name = "DI" -> "di" [] name = "[SI]" -> "[si]" [] name = "[DI]" -> "[di]"
      [] name = "[TX]" -> "[tx]"
      [] name = "UartData" -> "uartData" [] name = "UartControl" -> "uartCtrl"
      [] name = "AudioData" -> "audioData" [] name = "ControllerData" -> "audioData"
      [] name = "VgaStatus" -> "vgaData" [] name = "Gpio" -> "lcdCmd"
      [] OTHER -> ""

\* the CPU instruction an assembler instruction of one byte stands for
cpu_instruction(inst) ==
    CASE inst.kind \in {"Nop", "Lodsb", "Stosb", "Clc", "Addac", "Subae"} ->
            I(inst.kind, "", "")
      [] inst.kind = "RetBd" -> I("Ret", "", "")
      [] inst.kind = "CallBd" -> I("Call", cpu_operand(inst.x), "")
      [] inst.kind = "Mov" ->
            I(IF inst.x \in WordRegisters THEN "MovWord" ELSE "Mov",
              cpu_operand(inst.y), cpu_operand(inst.x))
      [] inst.kind = "In" -> I("In", cpu_operand(inst.y), "a")
      [] inst.kind = "Out" -> I("Out", "a", cpu_operand(inst.x))
      [] inst.kind \in {"Inc", "Incc"} /\ inst.x \in WordRegisters ->
            I("IncWord", cpu_operand(inst.x), "")
      [] inst.kind = "Dec" /\ inst.x \in WordRegisters ->
            I("DecWord", cpu_operand(inst.x), "")
      [] inst.kind \in {"Push", "Pop", "Inc", "Incc", "Dec", "Shl", "Shr", "Not", "Test"} ->
            I(inst.kind, cpu_operand(inst.x), "")
      [] OTHER -> I(inst.kind, cpu_operand(inst.y), cpu_operand(inst.x))

\* C32: the byte the assembler writes for an accepted one-byte instruction is
\* decoded by decode_opcode as the same operation on the same operands.
C32_OpcodeTable ==
    (section_st.phase = "decoded") =>
        section_st.decoded = cpu_instruction(section_st.inst)
-----------------------------------------------------------------------------
(* The write protocol of the audio device                                   *)

MaxAudioWrites == 4     \* bytes written to the audio data register

AudioBytes == {0, 1, 3, 128, 129, 255}

InitAudio ==
    /\ audio = audio_new
    /\ section_st = [phase |-> "audio", before |-> "", value |-> 0]
    /\ label_st = Idle
    /\ emit_st = Idle
    /\ cpu = Cpu_new
    /\ mem = Memory_new
    /\ vga = vga_new
    /\ uart = uart_new
    /\ fault = ""
    /\ tick = NoTick
    /\ ticks = 0
    /\ vgaread = Idle
    /\ sys = Idle

\* audio.write_data(value)
AudioWrite ==
    /\ ticks < MaxAudioWrites
    /\ \E value \in AudioBytes :
          /\ audio' = audio_write_data(audio, value)
          /\ section_st' = [section_st EXCEPT !.before = audio.cycle_state,
                                              !.value = value]
    /\ ticks' = ticks + 1
    /\ UNCHANGED << cpu, mem, vga, uart, fault, tick, vgaread, label_st, emit_st, sys >>

NextAudio == AudioWrite

SpecAudio == InitAudio /\ [][NextAudio]_vars

\* C33: after a byte with bit 7 set was written in the channel-select state,
\* the state machine is in the channel-select state again.
C33_SelectReset ==
    ((section_st.before = "ChannelSelect") /\ (bitand(section_st.value, 128) # 0)) =>
        audio.cycle_state = "ChannelSelect"
-----------------------------------------------------------------------------
(* The vertical scroll latch of the VGA                                     *)

MaxScrollLines == 4     \* scan lines clocked
MaxScrollWrites == 2    \* writes to the VGA registers

LINE_DOTS == 800        \* H_PIXELS of Vga::clock
CLOCK_CHUNK == 20

\* Vga::clock(mem, n) for a large n: the loop, taken CLOCK_CHUNK passes at a
\* time (a chunk sets at most CLOCK_CHUNK pixels)
RECURSIVE vga_clock_long(_, _, _)
vga_clock_long(v, m, n) ==
    IF n <= CLOCK_CHUNK THEN vga_clock(v, m, n, 0)
    ELSE LET r == vga_clock(v, m, CLOCK_CHUNK, 0)
         IN  IF r.pixels <= CLOCK_CHUNK
             THEN vga_clock_long(r.vga, r.mem, n - CLOCK_CHUNK)
             ELSE r

ScrollWrites == {<< 2, 8 >>, << 2, 16 >>, << 3, 0 >>, << 3, 1 >>}

InitScroll ==
    /\ vga = vga_new
    /\ mem = Memory_new
    \* writes: the register writes made; since: the line ends since the last
    \* write to the high byte of v_offset (-1: no such write); v_pixel: the
    \* value of v_pixel ahead of the last line
    /\ section_st = [phase |-> "scroll", writes |-> 0, since |-> -1, v_pixel |-> 0,
                     last |-> ""]
    /\ label_st = Idle
    /\ emit_st = Idle
    /\ cpu = Cpu_new
    /\ uart = uart_new
    /\ audio = audio_new
    /\ fault = ""
    /\ tick = NoTick
    /\ ticks = 0
    /\ vgaread = Idle
    /\ sys = Idle

\* vga.write_mapped_io(addr, value)
ScrollWrite ==
    /\ section_st.writes < MaxScrollWrites
    /\ \E w \in ScrollWrites :
          /\ vga' = write_mapped_io(vga, w[1], w[2])
          /\ section_st' = [section_st EXCEPT !.writes = @ + 1,
                                              !.since = IF w[1] = 3 THEN 0 ELSE @,
                                              !.last = "write"]
    /\ UNCHANGED << cpu, mem, uart, audio, fault, tick, ticks, vgaread, label_st,
                    emit_st, sys >>

\* vga.clock(mem, 800): one scan line, which ends with the line end
ScrollLine ==
    /\ ticks < MaxScrollLines
    /\ \E r \in {vga_clock_long(vga, mem, LINE_DOTS)} :
          /\ vga' = r.vga
          /\ mem' = r.mem
    /\ section_st' = [section_st EXCEPT !.since = IF @ >= 0 THEN @ + 1 ELSE @,
                                        !.v_pixel = vga.v_pixel,
                                        !.last = "line"]
    /\ ticks' = ticks + 1
    /\ UNCHANGED << cpu, uart, audio, fault, tick, vgaread, label_st, emit_st, sys >>

NextScroll == ScrollWrite \/ ScrollLine

SpecScroll == InitScroll /\ [][NextScroll]_vars

\* C34: the first line end after a write to the high byte of v_offset clears
\* the latch, and every later line end (no such write and no frame wrap in
\* between) increments v_pixel by one.
C34_LatchConsumed ==
    ((section_st.last = "line") /\ (vga.v_counter # 0)) =>
        /\ (section_st.since >= 1) => ~vga.update_vscroll
        /\ (section_st.since >= 2) => (vga.v_pixel = Word(section_st.v_pixel + 1))
-----------------------------------------------------------------------------
(* The bytes of jumps and branches to a value                               *)

JumpTargets == {0, 1, 255, 256, 4660, 32768, 65535}

JumpMnemonics == {"Jmp"} \cup BranchMnemonics

\* `m #v`
jump_statement(m, v) ==
    construct(Operands(IF m = "Jmp" THEN "Jmp" ELSE "Branch", m, "#", "", Some(v)))[1]

\* start: mov a,#1 / jmp start, in a section at base 0
StartProgram ==
    << SectionDirective("code", Some(0)), LabelAddress("start"),
       InstructionStatement(construct(Operands("Mov", "Mov", "A", "#", Some(Literal(1))))[1]),
       InstructionStatement(jump_statement("Jmp", Identifier("start"))) >>

JumpPrograms ==
    {StartProgram}
    \cup {<< SectionDirective("code", None), InstructionStatement(jump_statement(m, Literal(v))) >> :
             m \in JumpMnemonics, v \in JumpTargets}

JumpInputs == {Input(OneFile(p), FALSE, checks) : p \in JumpPrograms, checks \in BOOLEAN}

InitJump == InitAssembler(JumpInputs)

SpecJump == InitJump /\ [][NextAssembler]_vars

\* C35: assemble returns an image; the image of a jump to the value v is
\* 05 lo(v) 06 hi(v) 5F 60, that of a conditional branch to v is
\* 05 lo(v) 06 hi(v) 5F and an opcode in 0x61..0x70, and the image of
\* `start: mov a,#1` and `jmp start` at base 0 starts at 0 and is
\* 01 01 05 00 06 00 5F 60.
C35_JumpBytes ==
    (section_st.phase = "done") =>
        /\ emit_st.result.tag = "Ok"
        /\ IF program_statements = StartProgram
           THEN /\ emit_st.result.start = 0
                /\ emit_st.result.data = << 1, 1, 5, 0, 6, 0, 95, 96 >>
           ELSE LET inst == program_statements[2].inst
                    v == inst.value[1].value[1]
                    data == emit_st.result.data
                IN  /\ Len(data) = 6
                    /\ SubSeq(data, 1, 5) = << 5, v % 256, 6, v \div 256, 95 >>
                    /\ (inst.kind = "Jmp") => (data[6] = 96)
                    /\ (inst.kind = "Branch") => (data[6] \in 97..112)

\* the image of a branch to 0x1234 is out
C35_Witness ==
    /\ section_st.phase = "done"
    /\ program_statements # StartProgram
    /\ program_statements[2].inst.kind = "Branch"
    /\ emit_st.result.data = << 5, 52, 6, 18, 95, 101 >>

-----------------------------------------------------------------------------
(* The host side of the UART receive FIFO                                   *)

MaxHostTicks == 80  \* calls of Cpu::clock by the drivers
MaxHostCalls == 3   \* calls of System::clock and System::execute_program
MaxQueued == 3      \* bytes handed to System::write_char
HOST_CLOCK_N == 40  \* the n of System::clock(n)

\* the passes of System::clock made before the program is loaded
HostIdle == {24}

\* programs that write the prompt '>' to the UART and read nothing
HostPrograms ==
    { << 1, 62, 57 >>,          \* mov a,#'>'; out uartData,a
      << 1, 62, 57, 57 >> }     \* mov a,#'>'; out uartData,a; out uartData,a

InitHost ==
    /\ \E program \in HostPrograms, k \in HostIdle :
          \E s \in {started(program, k)} :
             /\ cpu = s.cpu
             /\ mem = s.mem
             /\ vga = s.vga
             /\ uart = s.uart
             /\ audio = s.audio
             /\ sys = s.sys
    /\ fault = ""
    /\ tick = NoTick
    /\ ticks = 0
    /\ vgaread = Idle
    /\ section_st = Idle
    /\ label_st = Idle
    /\ emit_st = Idle

\* System::write_char(c) with a character of one byte
HostWriteChar ==
    /\ fault = ""
    /\ sys.call = ""
    /\ Len(sys.input_queue) < MaxQueued
    /\ sys' = [sys EXCEPT !.input_queue = Append(@, 13)]
    /\ UNCHANGED << cpu, mem, vga, uart, audio, fault, tick, ticks, sysOther >>

\* System::clock(n) up to its for loop
HostClock ==
    /\ fault = ""
    /\ sys.call = ""
    /\ sys.calls < MaxHostCalls
    /\ sys' = clock_begin(sys, HOST_CLOCK_N)
    /\ UNCHANGED << cpu, mem, vga, uart, audio, fault, tick, ticks, sysOther >>

\* System::clock: one pass of the for loop
HostClockTick ==
    /\ fault = ""
    /\ sys.call = "clock"
    /\ sys.n > 0
    /\ ~sys.break_point
    /\ ticks < MaxHostTicks
    /\ \E r \in {clock_tick(system)} : Ticked_by(r)

\* System::execute_program up to its loop
HostExecuteProgram ==
    /\ fault = ""
    /\ sys.call = ""
    /\ sys.calls < MaxHostCalls
    /\ sys' = [sys EXCEPT !.call = "execute_program", !.loader_finished = FALSE,
                          !.result = None, !.calls = @ + 1, !.call_ticks = 0]
    /\ UNCHANGED << cpu, mem, vga, uart, audio, fault, tick, ticks, sysOther >>

\* System::execute_program: one pass of the loop
HostExecuteProgramTick ==
    /\ fault = ""
    /\ sys.call = "execute_program"
    /\ ~sys.loader_finished
    /\ ticks < MaxHostTicks
    /\ \E r \in {execute_tick(system)} : Ticked_by(r)

NextHost ==
    \/ HostWriteChar
    \/ HostClock
    \/ HostClockTick
    \/ SystemClockReturn
    \/ HostExecuteProgram
    \/ HostExecuteProgramTick
    \/ ExecuteProgramReturn

SpecHost == InitHost /\ [][NextHost]_vars

RECEIVE_FULL == "Cannot receive any more data, buffer is full"

\* C36: no call of host_write by System::clock or System::execute_program
\* finds the receive FIFO full.
C36_ReceiveRoom == fault # RECEIVE_FULL
-----------------------------------------------------------------------------
(* MOV immediate behind an instruction that holds the bus in stage 2        *)

ContestedTicks == 10    \* clock calls of a run of the three instructions

\* push a, pop b, mov a,[si], mov [di],a, lodsb, stosb
AccessOpcodes == {114, 121, 64, 80, 91, 126}

\* immediates that are opcodes with an effect (inc a, inc d, push a, break,
\* mov a,#) and some that are not
ContestedImmediates == {0, 1, 63, 85, 114, 160, 163, BYTE_MAX}

\* mov c,# and mov tl,#
ContestedCases == [access : AccessOpcodes, mov : {3, 5}, imm : ContestedImmediates]

\* the access, MOV r,#imm, INC d
contested_program(case) == << case.access, case.mov, case.imm, 163 >>

\* the access alone
access_program(case) == << case.access >>

contested_state ==
    [a |-> 7, b |-> 9, source_index |-> 256, destination_index |-> 512,
     stack_pointer |-> 1024]

\* memory with `program` at 0, a byte for the read through SI and bytes around
\* the stack pointer
contested_memory(program) ==
    init_region(init_region(init_region(Memory_new, program, 0), << 66 >>, 256),
                << 33, 34, 35, 36 >>, 1022)

InitContested ==
    /\ \E case \in ContestedCases :
          /\ label_st = case
          /\ mem = contested_memory(contested_program(case))
          /\ cpu = test_code(contested_state)
    /\ InitHarness

RunContested == ClockWithin(ContestedTicks)

SpecContested == InitContested /\ [][RunContested]_vars

\* the loop of test_code, k passes: Cpu::clock, then the host takes a byte
\* out of the transmit FIFO
RECURSIVE clock_times(_, _)
clock_times(s, k) ==
    IF (k = 0) \/ (s.fault # "") THEN s
    ELSE LET r == clock([cpu |-> s.cpu, mem |-> s.mem, vga |-> s.vga, uart |-> s.uart,
                         audio |-> s.audio])
             hr == host_read(r.uart)
         IN  IF r.fault # "" THEN r
             ELSE clock_times([r EXCEPT !.uart = hr.uart, !.fault = hr.fault], k - 1)

\* the machine after the access instruction alone has run for as many ticks
access_alone ==
    clock_times([cpu |-> test_code(contested_state),
                 mem |-> contested_memory(access_program(label_st)),
                 vga |-> vga_new, uart |-> uart_new, audio |-> audio_new, fault |-> ""],
                ContestedTicks)

\* the bytes of memory behind the program
behind_program(m) == [a \in (DOMAIN m.data) \ (0..3) |-> m.data[a]]

\* C37: after the run of a bus access in stage 2, MOV r,#imm and INC d, r holds
\* imm and the pipeline is empty, the access has had its effect once (registers and memory are those
\* of the access run alone), the immediate was not executed (a, b and the
\* rest are untouched, d was incremented once by the INC behind the
\* immediate), and the PC is where the run of the access alone leaves it.
C37_ContestedMov ==
    /\ ~tick.break_point
    /\ (ticks = ContestedTicks) =>
        LET target == decode_opcode(label_st.mov).y
            alone == access_alone
        IN  /\ fault = ""
            /\ \A stage \in {cpu.stage0_instruction, cpu.stage1_instruction,
                              cpu.stage2_instruction} : stage = Nop
            /\ stored(cpu, target) = label_st.imm
            /\ cpu.gpr["d"] = 1
            /\ \A r \in {"a", "b"} : cpu.gpr[r] = alone.cpu.gpr[r]
            /\ (target # "c") => (cpu.gpr["c"] = alone.cpu.gpr["c"])
            /\ (target # "tl") => (cpu.transfer = alone.cpu.transfer)
            /\ cpu.spr = alone.cpu.spr
            /\ behind_program(mem) = behind_program(alone.mem)

\* the tick of the contention: LODSB reads through SI in stage 2 while the MOV
\* behind it captures its immediate, the opcode of INC a, in stage 1, and
\* both suppress the fetch
C37_Witness ==
    /\ ticks = 3
    /\ cpu.stage2_instruction.op = "Lodsb"
    /\ cpu.stage1_instruction = I("Mov", "#", "c")
    /\ ~tick.fetch_stage1
    /\ ~tick.fetch_stage2
    /\ cpu.constant = 160
    /\ cpu.gpr["a"] = 66
-----------------------------------------------------------------------------
(* Adjacent register instructions: a pair run back to back against the same *)
(* pair run one at a time                                                   *)

ForwardTicks == 8       \* clock calls of a run of a pair
DRAIN == 2              \* NOPs that empty the pipeline behind an instruction

RegisterOps ==
    {"Mov", "Clc", "Shl", "Shr", "Add", "Addc", "Inc", "Incc", "Sub", "Subb",
     "Dec", "And", "Or", "Xor", "Not", "Cmp", "Test"}

\* the opcodes of the MOV and ALU instructions over a, b and immediates
RegisterOpcodes ==
    {op \in 0..BYTE_MAX :
        /\ decode_opcode(op).op \in RegisterOps
        /\ decode_opcode(op).x \in {"a", "b", "#", ""}
        /\ decode_opcode(op).y \in {"a", "b", ""}}

ForwardCases ==
    [first : RegisterOpcodes, second : RegisterOpcodes, a : {1, 128, BYTE_MAX},
     b : {1, BYTE_MAX}, carry : BOOLEAN, logical_carry : BOOLEAN]

\* the bytes of an instruction of a case: a MOV r,# carries the immediate 200
instruction_bytes(op) == IF decode_opcode(op).x = "#" THEN << op, 200 >> ELSE << op >>

\* the pair back to back
adjacent_program(case) == instruction_bytes(case.first) \o instruction_bytes(case.second)

\* the pair with the pipeline drained between the two
separate_program(case) ==
    instruction_bytes(case.first) \o zeros(DRAIN) \o instruction_bytes(case.second)

forward_state(case) ==
    [a |-> case.a, b |-> case.b, carry |-> case.carry,
     logical_carry |-> case.logical_carry]

InitForward ==
    /\ \E case \in ForwardCases :
          /\ label_st = case
          /\ mem = init_region(Memory_new, adjacent_program(case), 0)
          /\ cpu = test_code(forward_state(case))
    /\ InitHarness

RunForward == ClockWithin(ForwardTicks)

SpecForward == InitForward /\ [][RunForward]_vars

\* the machine after the pair has run one instruction at a time
one_at_a_time ==
    clock_times([cpu |-> test_code(forward_state(label_st)),
                 mem |-> init_region(Memory_new, separate_program(label_st), 0),
                 vga |-> vga_new, uart |-> uart_new, audio |-> audio_new, fault |-> ""],
                ForwardTicks + DRAIN)

\* C38: in a run of a pair of adjacent MOV/ALU instructions over a and b (no
\* ADDAC or SUBAE), the operands an ADD or ADDC captures in stage 1 are the
\* registers as the stage 2 of the instruction before it has just left them,
\* and the run leaves the registers and the flags that the same pair leaves
\* when the pipeline is drained between the two (so that an ADDC, SUBB or INCC
\* adds the carry of the instruction before it).
C38_ReadAfterWrite ==
    /\ (Ticked /\ cpu.stage1_instruction.op \in {"Add", "Addc"}) =>
          /\ cpu.lhs_latch = cpu.gpr[cpu.stage1_instruction.y]
          /\ cpu.rhs_latch = cpu.gpr[cpu.stage1_instruction.x]
    /\ (ticks = ForwardTicks) =>
          LET alone == one_at_a_time
          IN  /\ fault = ""
              /\ alone.fault = ""
              /\ cpu.gpr = alone.cpu.gpr
              /\ cpu.flags = alone.cpu.flags

\* ADD a,b then ADDC b,a on a = b = 255: the ADD leaves b = 254 and the carry,
\* the ADDC captures that b while the ADD is in stage 2 and adds the carry
C38_Witness ==
    /\ ticks = ForwardTicks
    /\ label_st.first = 139
    /\ label_st.second = 148
    /\ label_st.a = BYTE_MAX
    /\ label_st.b = BYTE_MAX
    /\ cpu.gpr["b"] = 254
    /\ cpu.gpr["a"] = 254
    /\ cpu.flags.carry
-----------------------------------------------------------------------------
(* The bytes JmpInstruction::encode and BranchInstruction::encode write for *)
(* a jump to a value, run on the CPU                                        *)

SequenceTicks == 16     \* clock calls of a run of a jump sequence

FlagFrames ==
    [overflow : BOOLEAN, zero : BOOLEAN, carry : BOOLEAN, logical_carry : BOOLEAN,
     sign : BOOLEAN]

\* a jump case: `lead` NOPs, the sequence of `mnemonic` to `target`, INC a,
\* INC b; at `target` INC c, INC d
SequenceCases ==
    [mnemonic : JumpMnemonics, target : {32, 300}, lead : {0, 1}, flags : FlagFrames]

sequence_bytes(case) == encoding(jump_statement(case.mnemonic, Literal(case.target)))

sequence_main(case) == zeros(case.lead) \o sequence_bytes(case) \o << 160, 161 >>

sequence_memory(case) ==
    init_region(init_region(Memory_new, sequence_main(case), 0), << 162, 163 >>, case.target)

InitSequence ==
    /\ \E case \in SequenceCases :
          /\ label_st = case
          /\ mem = sequence_memory(case)
          /\ cpu = test_code(case.flags)
    /\ InitHarness

RunSequence == ClockWithin(SequenceTicks)

SpecSequence == InitSequence /\ [][RunSequence]_vars

\* the jump instruction the sequence of the case ends with
sequence_jump == decode_opcode(sequence_bytes(label_st)[Len(sequence_bytes(label_st))])

\* the condition of a jump as the comments of the Instruction enum give it
documented_condition(op, flags) ==
    CASE op = "Jna" -> flags.carry \/ flags.zero
      [] op = "Ja" -> ~flags.carry /\ ~flags.zero
      [] OTHER -> jump_condition(op, flags)

\* the instructions behind the sequence and at the target have not run / have
\* run once, in the registers they count in
behind_ran(n) == cpu.gpr["a"] = n /\ cpu.gpr["b"] = n
target_ran(n) == cpu.gpr["c"] = n /\ cpu.gpr["d"] = n

\* a run of a sequence whose jump is taken / not taken
taken_run ==
    /\ fault = ""
    /\ cpu.stage0_instruction \notin {I("Inc", "a", ""), I("Inc", "b", "")}
    /\ behind_ran(0)
    /\ (ticks = SequenceTicks) => target_ran(1)

untaken_run ==
    /\ fault = ""
    /\ target_ran(0)
    /\ (ticks = SequenceTicks) => behind_ran(1)

\* C39: the six bytes of a jump or of a branch whose condition (as documented)
\* holds bring the instructions at the target into the pipeline and none of
\* those behind the six bytes; the six bytes of a branch whose condition does
\* not hold are followed by the instructions behind them, each once.
C39_SequenceJumps ==
    IF documented_condition(sequence_jump.op, label_st.flags)
    THEN taken_run ELSE untaken_run

\* the same with the condition Cpu::clock tests
C39_SequenceJumpsAsTested ==
    /\ Len(sequence_bytes(label_st)) = 6
    /\ (cpu.stage1_instruction.op \in JumpOps) => (cpu.flags = label_st.flags)
    /\ IF jump_condition(sequence_jump.op, label_st.flags)
       THEN taken_run ELSE untaken_run
=============================================================================
